---- MODULE Spec2Model ----
(***************************************************************************)
(* Ride pattern mining and AI route generation of the cycling-ai-app.      *)
(*                                                                         *)
(* Fixed-point units used throughout:                                      *)
(*   distances        : KM units per kilometre (1 unit = 1/120 km), so that *)
(*                      the mean of up to four values and the 0.8 / 1.2 /  *)
(*                      0.7 / 0.85 factors stay whole numbers              *)
(*   elevation gains  : metres                                             *)
(*   scores           : ONE units per 1.0 (1 unit = 0.00001)               *)
(*   confidences, wind factors, condition ratings : hundredths             *)
(*   track points and locations : [lon, lat] in units of 0.001 degree      *)
(*   end points of segments : <<x, y>> in metres on the local plane        *)
(***************************************************************************)
EXTENDS Integers, Sequences, FiniteSets, TLC

KM == 12 * 10
ONE == 100 * 1000

Abs(x) == IF x < 0 THEN 0 - x ELSE x
Min2(a, b) == IF a < b THEN a ELSE b
Max2(a, b) == IF a > b THEN a ELSE b

\* Math.round(num / den) for den > 0: floor(num/den + 1/2)
RoundDiv(num, den) == (2 * num + den) \div (2 * den)

RECURSIVE SumSeq(_)
SumSeq(s) == IF s = <<>> THEN 0 ELSE Head(s) + SumSeq(Tail(s))

RECURSIVE InsertAsc(_, _)
InsertAsc(x, s) ==
  IF s = <<>> THEN <<x>>
  ELSE IF x < Head(s) THEN <<x>> \o s
  ELSE <<Head(s)>> \o InsertAsc(x, Tail(s))

\* [...xs].sort((a, b) => a - b)
RECURSIVE SortAsc(_)
SortAsc(s) == IF s = <<>> THEN <<>> ELSE InsertAsc(Head(s), SortAsc(Tail(s)))

(***************************************************************************)
(* rideAnalysis.js                                                         *)
(*                                                                         *)
(* An optional summary field is <<>> when missing (undefined or null) and  *)
(* <<v>> when present.  A track point is [lon, lat] in units of 0.001      *)
(* degree; a ride without track_points has the empty sequence.             *)
(***************************************************************************)

\* ranges of findMostCommonDistanceRange, in order
DistanceRanges ==
  << [min |-> 0,       max |-> 15 * KM,  name |-> "short"],
     [min |-> 15 * KM, max |-> 35 * KM,  name |-> "medium"],
     [min |-> 35 * KM, max |-> 65 * KM,  name |-> "long"],
     [min |-> 65 * KM, max |-> 150 * KM, name |-> "very_long"] >>

RangeCount(distances, r) ==
  Cardinality({i \in DOMAIN distances : distances[i] >= r.min /\ distances[i] < r.max})

\* a reduce that also replaces the best on an equal count
RECURSIVE ReduceLast(_, _, _)
ReduceLast(distances, best, i) ==
  IF i > Len(DistanceRanges) THEN best
  ELSE ReduceLast(distances,
                  IF RangeCount(distances, DistanceRanges[i]) >= RangeCount(distances, DistanceRanges[best])
                  THEN i ELSE best,
                  i + 1)

\* rangeCounts.reduce((best, current) => current.count > best.count ? current : best)
RECURSIVE ReduceBest(_, _, _)
ReduceBest(distances, best, i) ==
  IF i > Len(DistanceRanges) THEN best
  ELSE ReduceBest(distances,
                  IF RangeCount(distances, DistanceRanges[i]) > RangeCount(distances, DistanceRanges[best])
                  THEN i ELSE best,
                  i + 1)

findMostCommonDistanceRange(distances) ==
  LET b == ReduceBest(distances, 1, 2)
  IN  [min |-> DistanceRanges[b].min, max |-> DistanceRanges[b].max,
       name |-> DistanceRanges[b].name, count |-> RangeCount(distances, DistanceRanges[b])]

\* sorted[Math.floor(sorted.length * q)] with q = num/den (JS index is 0-based)
PercentileIndexUp(n, num, den) == (n * num + den - 1) \div den

PercentileIndex(n, num, den) == (n * num) \div den

\* reading an array past its end gives undefined
Undefined == 0 - 1

PercentileAt(sorted, num, den) ==
  LET index == PercentileIndex(Len(sorted), num, den)
  IN  IF index < Len(sorted) THEN sorted[index + 1] ELSE Undefined

\* kind "object": a distance profile; kind "array": the placeholder [] of
\* analyzeRidingPatterns, whose .mean, .range ... are undefined (held as 0 here
\* and never read without testing kind)
analyzeDistanceDistribution(distances) ==
  LET sorted == SortAsc(distances)
  IN  [kind |-> "object",
       mean |-> SumSeq(distances) \div Len(distances),
       median |-> PercentileAt(sorted, 1, 2),
       p25 |-> PercentileAt(sorted, 1, 4),
       p50 |-> PercentileAt(sorted, 1, 2),
       p75 |-> PercentileAt(sorted, 3, 4),
       p90 |-> PercentileAt(sorted, 9, 10),
       min |-> sorted[1],
       max |-> sorted[Len(sorted)],
       mostCommon |-> findMostCommonDistanceRange(distances)]

EmptyArrayDistances ==
  [kind |-> "array", mean |-> 0, median |-> 0, p25 |-> 0, p50 |-> 0, p75 |-> 0,
   p90 |-> 0, min |-> 0, max |-> 0,
   mostCommon |-> [min |-> 0, max |-> 0, name |-> "none", count |-> 0]]

\* hasMean is FALSE for the literal { min: 0, max: 1000, preferred: 300 }
analyzeElevationPreference(elevationGains) ==
  LET sorted == SortAsc(elevationGains)
      n == Len(sorted)
  IN  [min |-> sorted[1],
       max |-> sorted[n],
       hasMean |-> TRUE,
       mean |-> RoundDiv(SumSeq(elevationGains), n),
       preferred |-> PercentileAt(sorted, 6, 10),
       tolerance |-> PercentileAt(sorted, 8, 10),
       hasTolerance |-> TRUE]

InitialElevationTolerance ==
  [min |-> 0, max |-> 1000, hasMean |-> FALSE, mean |-> 0, preferred |-> 300,
   tolerance |-> 0, hasTolerance |-> FALSE]

categorizeElevationPreference(elevationGains) ==
  LET sum == SumSeq(elevationGains)
      n == Len(elevationGains)
  IN  IF sum < 200 * n THEN "flat"
      ELSE IF sum < 500 * n THEN "rolling"
      ELSE IF sum < 1000 * n THEN "hilly"
      ELSE "mountainous"

DefaultPreferredDistances ==
  [kind |-> "object", mean |-> 25 * KM, median |-> 20 * KM,
   p25 |-> 15 * KM, p50 |-> 20 * KM, p75 |-> 30 * KM, p90 |-> 40 * KM,
   min |-> 10 * KM, max |-> 50 * KM,
   mostCommon |-> [min |-> 15 * KM, max |-> 35 * KM, name |-> "medium", count |-> 1]]

DefaultElevationTolerance ==
  [min |-> 0, max |-> 1000, hasMean |-> TRUE, mean |-> 300, preferred |-> 300,
   tolerance |-> 0, hasTolerance |-> FALSE]

getDefaultPatterns ==
  [preferredDistances |-> DefaultPreferredDistances,
   preferredDirections |-> <<>>,
   elevationPreference |-> "moderate",
   averageSpeed |-> 23,
   frequentAreas |-> <<>>,
   elevationTolerance |-> DefaultElevationTolerance]

\* const tolerance = 0.01 of findFrequentAreas, in units of 0.001 degree
clusterTolerance == 10

\* 1 degree is about 111 km: a kilometre in units of 0.001 degree
UnitsPerKm == 9

\* Math.floor((trackPoints.length - 1) * (i / 100))
SampleIndex(n, i) == ((n - 1) * i) \div 100

\* extractRideLocations: the start, the points at 10, 30, 50, 70 and 90 percent,
\* the end
extractRideLocations(ride) ==
  LET tp == ride.track_points
      n == Len(tp)
  IN  IF n = 0 THEN <<>>
      ELSE <<[lon |-> tp[1].lon, lat |-> tp[1].lat, type |-> "start"]>>
           \o [k \in 1..5 |->
                 [lon |-> tp[SampleIndex(n, 20 * k - 10) + 1].lon,
                  lat |-> tp[SampleIndex(n, 20 * k - 10) + 1].lat,
                  type |-> "waypoint"]]
           \o <<[lon |-> tp[n].lon, lat |-> tp[n].lat, type |-> "end"]>>

\* pastRides.map(extractRideLocations).filter(locations => locations.length > 0)
HasLocations(locations) == Len(locations) > 0
RideLocations(pastRides) ==
  SelectSeq([i \in DOMAIN pastRides |-> extractRideLocations(pastRides[i])], HasLocations)

\* rideLocations.flat()
RECURSIVE Flat(_)
Flat(lists) == IF lists = <<>> THEN <<>> ELSE Head(lists) \o Flat(Tail(lists))

RECURSIVE SumLon(_)
SumLon(cluster) == IF cluster = <<>> THEN 0 ELSE Head(cluster).lon + SumLon(Tail(cluster))
RECURSIVE SumLat(_)
SumLat(cluster) == IF cluster = <<>> THEN 0 ELSE Head(cluster).lat + SumLat(Tail(cluster))

\* a centre is the mean of a cluster, held as the two sums and the count
CenterOf(cluster) == [lon |-> SumLon(cluster), lat |-> SumLat(cluster), n |-> Len(cluster)]

AlwaysWithin(location, center, limit) == TRUE

\* the planar distance from location to a centre is below limit (same units)
WithinUnits(location, center, limit) ==
  LET dLon == center.n * location.lon - center.lon
      dLat == center.n * location.lat - center.lat
  IN  dLon * dLon + dLat * dLat < (limit * center.n) * (limit * center.n)

\* join the last cluster whose centre is nearer than the tolerance
AddToLastCluster(clusters, location) ==
  IF \E i \in DOMAIN clusters : WithinUnits(location, CenterOf(clusters[i]), clusterTolerance)
  THEN LET last == CHOOSE i \in DOMAIN clusters :
                     /\ WithinUnits(location, CenterOf(clusters[i]), clusterTolerance)
                     /\ \A j \in (i + 1)..Len(clusters) :
                          ~WithinUnits(location, CenterOf(clusters[j]), clusterTolerance)
       IN  [clusters EXCEPT ![last] = Append(@, location)]
  ELSE Append(clusters, <<location>>)

\* the body of allLocations.forEach: join the first cluster whose centre is
\* nearer than the tolerance, else open a cluster
AddToClusters(clusters, location) ==
  IF \E i \in DOMAIN clusters : WithinUnits(location, CenterOf(clusters[i]), clusterTolerance)
  THEN LET first == CHOOSE i \in DOMAIN clusters :
                      /\ WithinUnits(location, CenterOf(clusters[i]), clusterTolerance)
                      /\ \A j \in 1..(i - 1) :
                           ~WithinUnits(location, CenterOf(clusters[j]), clusterTolerance)
       IN  [clusters EXCEPT ![first] = Append(@, location)]
  ELSE Append(clusters, <<location>>)

RECURSIVE GroupLocations(_, _)
GroupLocations(clusters, locations) ==
  IF locations = <<>> THEN clusters
  ELSE GroupLocations(AddToClusters(clusters, Head(locations)), Tail(locations))

\* .sort((a, b) => b.frequency - a.frequency): stable, descending
RECURSIVE InsertByFrequency(_, _)
InsertByFrequency(e, s) ==
  IF s = <<>> THEN <<e>>
  ELSE IF e.frequency > Head(s).frequency THEN <<e>> \o s
  ELSE <<Head(s)>> \o InsertByFrequency(e, Tail(s))

RECURSIVE SortByFrequencyDesc(_)
SortByFrequencyDesc(s) ==
  IF s = <<>> THEN <<>>
  ELSE InsertByFrequency(s[Len(s)], SortByFrequencyDesc(SubSeq(s, 1, Len(s) - 1)))

\* .slice(0, k)
Slice(s, k) == SubSeq(s, 1, Min2(Len(s), k))

AtLeastThreeVisits(cluster) == Len(cluster) >= 3

\* confidence in hundredths
AreaOf(cluster) ==
  [center |-> CenterOf(cluster), frequency |-> Len(cluster),
   confidence |-> Min2(10 * Len(cluster), 100)]

\* every cluster as an area, in order of creation
AllClustersAsAreas(rideLocations) ==
  LET clusters == GroupLocations(<<>>, Flat(rideLocations))
  IN  [i \in DOMAIN clusters |-> AreaOf(clusters[i])]

findFrequentAreas(rideLocations) ==
  LET clusters == SelectSeq(GroupLocations(<<>>, Flat(rideLocations)), AtLeastThreeVisits)
      areas == [i \in DOMAIN clusters |-> AreaOf(clusters[i])]
  IN  Slice(SortByFrequencyDesc(areas), 5)

\* calculateBearing of routeUtils: the compass heading from start to end, here
\* for the eight compass directions the tracks of the model run along
calculateBearing(start, end) ==
  LET dLon == end.lon - start.lon
      dLat == end.lat - start.lat
  IN  IF dLon = 0 THEN (IF dLat >= 0 THEN 0 ELSE 180)
      ELSE IF dLat = 0 THEN (IF dLon > 0 THEN 90 ELSE 270)
      ELSE IF dLon > 0 /\ dLat = 2 * dLon THEN 27
      ELSE IF dLon > 0 /\ dLon = 2 * dLat THEN 63
      ELSE IF dLon > 0 THEN (IF dLat > 0 THEN 45 ELSE 135)
      ELSE (IF dLat < 0 THEN 225 ELSE 315)

UnwrappedChange(bearing1, bearing2) == Abs(bearing2 - bearing1)

\* Math.abs(bearing2 - bearing1), and 360 less that when it is over 180
bearingChange(bearing1, bearing2) ==
  IF Abs(bearing2 - bearing1) > 180 THEN 360 - Abs(bearing2 - bearing1)
  ELSE Abs(bearing2 - bearing1)

\* the bearing change at the i-th point of a track, 1 < i < Len(trackPoints)
ChangeAt(trackPoints, i) ==
  bearingChange(calculateBearing(trackPoints[i - 1], trackPoints[i]),
                calculateBearing(trackPoints[i], trackPoints[i + 1]))

\* a point as findKeyPoints returns it: confidence is <<>> on a point handed
\* back as it came, <<c>> (hundredths) on { ...curr, confidence: c }
KeyPoint(point, confidence) == [point |-> point, confidence |-> confidence]

RECURSIVE TurnsFrom(_, _)
TurnsFrom(trackPoints, i) ==
  IF i > Len(trackPoints) - 1 THEN <<>>
  ELSE (IF ChangeAt(trackPoints, i) > 30
        THEN <<KeyPoint(trackPoints[i],
                        <<Min2((100 * ChangeAt(trackPoints, i)) \div 90, 100)>>)>>
        ELSE <<>>)
       \o TurnsFrom(trackPoints, i + 1)

findKeyPoints(trackPoints) ==
  IF Len(trackPoints) < 3 THEN [i \in DOMAIN trackPoints |-> KeyPoint(trackPoints[i], <<>>)]
  ELSE <<KeyPoint(trackPoints[1], <<>>)>>
       \o TurnsFrom(trackPoints, 2)
       \o <<KeyPoint(trackPoints[Len(trackPoints)], <<>>)>>

\* the bearings of the consecutive locations of one ride
LegBearings(locations) ==
  IF Len(locations) < 2 THEN <<>>
  ELSE [i \in 1..(Len(locations) - 1) |-> calculateBearing(locations[i], locations[i + 1])]

\* Math.floor(((bearing + 22.5) % 360) / 45)
SectorOf(bearing) == ((10 * bearing + 225) % 3600) \div 450

SectorNames == <<"N", "NE", "E", "SE", "S", "SW", "W", "NW">>

AtLeastTenPercent(p, total) == 10 * p.frequency >= total

\* .filter(p => p.preference > 0.1), with preference = count / directions.length
AboveTenPercent(p, total) == 10 * p.frequency > total

\* the sector histogram and preference list of the bearings collected; the
\* preference field is held in hundredths
preferencesOfDirections(directions) ==
  LET total == Len(directions)
      Count(k) == Cardinality({i \in DOMAIN directions : SectorOf(directions[i]) = k})
      preferences == [j \in 1..8 |->
                        [direction |-> SectorNames[j], bearing |-> (j - 1) * 45,
                         frequency |-> Count(j - 1),
                         preference |-> (100 * Count(j - 1)) \div total]]
      Preferred(p) == AboveTenPercent(p, total)
  IN  IF total = 0 THEN <<>>
      ELSE Slice(SortByFrequencyDesc(SelectSeq(preferences, Preferred)), 3)

analyzePreferredDirections(rideLocations) ==
  preferencesOfDirections(Flat([i \in DOMAIN rideLocations |-> LegBearings(rideLocations[i])]))

\* .filter(d => d && d > 0) on ride.summary?.distance
ValidDistance(ride) == ride.distance # <<>> /\ ride.distance[1] > 0
\* .filter(e => e !== null && e !== undefined) on ride.summary?.elevation_gain
ValidElevation(ride) == ride.elevation_gain # <<>>

RECURSIVE MapDistance(_)
MapDistance(rides) ==
  IF rides = <<>> THEN <<>> ELSE <<Head(rides).distance[1]>> \o MapDistance(Tail(rides))

RECURSIVE MapElevation(_)
MapElevation(rides) ==
  IF rides = <<>> THEN <<>> ELSE <<Head(rides).elevation_gain[1]>> \o MapElevation(Tail(rides))

RideDistances(pastRides) == MapDistance(SelectSeq(pastRides, ValidDistance))
RideElevationGains(pastRides) == MapElevation(SelectSeq(pastRides, ValidElevation))

\* the part of analyzeRidingPatterns that runs when rides are supplied
AnalyzeSuppliedRides(pastRides) ==
  LET distances == RideDistances(pastRides)
      elevationGains == RideElevationGains(pastRides)
      rideLocations == RideLocations(pastRides)
  IN  [preferredDistances |->
         IF Len(distances) > 0 THEN analyzeDistanceDistribution(distances)
         ELSE EmptyArrayDistances,
       preferredDirections |->
         IF Len(rideLocations) > 0 THEN analyzePreferredDirections(rideLocations)
         ELSE <<>>,
       elevationPreference |->
         IF Len(elevationGains) > 0 THEN categorizeElevationPreference(elevationGains)
         ELSE "moderate",
       averageSpeed |-> 23,
       frequentAreas |->
         IF Len(rideLocations) > 0 THEN findFrequentAreas(rideLocations) ELSE <<>>,
       elevationTolerance |->
         IF Len(elevationGains) > 0 THEN analyzeElevationPreference(elevationGains)
         ELSE InitialElevationTolerance]

\* one default profile object kept by the module and handed to every caller
SharedDefaultPatternsRef(h) ==
  IF \E i \in DOMAIN h : h[i].origin = "default"
  THEN [heap |-> h, ref |-> CHOOSE i \in DOMAIN h : h[i].origin = "default"]
  ELSE [heap |-> Append(h, [origin |-> "default", value |-> getDefaultPatterns]),
        ref |-> Len(h) + 1]

\* Objects live in a heap (a sequence of cells); a reference is an index into
\* it.  getDefaultPatterns evaluates an object literal, so every call yields a
\* new cell.
getDefaultPatternsRef(h) ==
  [heap |-> Append(h, [origin |-> "default", value |-> getDefaultPatterns]),
   ref |-> Len(h) + 1]

\* analyzeRidingPatterns(pastRides) on heap h; pastRides is <<>> when the
\* argument is null or undefined and <<rides>> otherwise
AnalyzeCall(h, pastRides) ==
  IF pastRides = <<>> \/ Len(pastRides[1]) = 0 THEN getDefaultPatternsRef(h)
  ELSE [heap |-> Append(h, [origin |-> "analysis",
                            value |-> AnalyzeSuppliedRides(pastRides[1])]),
        ref |-> Len(h) + 1]

\* the value analyzeRidingPatterns returns
analyzeRidingPatterns(pastRides) ==
  LET r == AnalyzeCall(<<>>, pastRides) IN r.heap[r.ref].value

\* calculateDistance(location, center) < km: the haversine distance of two
\* points a few km apart is their planar distance
DistanceBelow(location, center, km) == WithinUnits(location, center, UnitsPerKm * km)

\* patterns.frequentAreas.filter(area => distance < 20)
NearbyAreas(areas, startLocation) ==
  LET Near(area) == DistanceBelow(startLocation, area.center, 20)
  IN  SelectSeq(areas, Near)

\* defaultDirections[params.trainingGoal] || [90, 270], first entry
DefaultBearing(trainingGoal) ==
  CASE trainingGoal = "hills" -> 0
    [] trainingGoal = "endurance" -> 90
    [] trainingGoal = "intervals" -> 180
    [] trainingGoal = "recovery" -> 135
    [] OTHER -> 90


\* patterns.preferredDistances.mean is truthy
HasMeanDistance(patterns) == patterns.preferredDistances.kind = "object"

\* the target distance left as requested
KeepTargetDistance(targetDistance, patterns, trainingGoal) == targetDistance

adjustDistanceBasedOnPatterns(targetDistance, patterns, trainingGoal) ==
  IF ~HasMeanDistance(patterns) THEN targetDistance
  ELSE LET userMean == patterns.preferredDistances.mean
           \* confidence * 0.3, in hundredths
           weight == IF patterns.preferredDistances.max > patterns.preferredDistances.min
                     THEN 30 ELSE 15
       IN  IF trainingGoal = "recovery" THEN Min2(targetDistance, (userMean * 8) \div 10)
           ELSE IF trainingGoal = "endurance" THEN Max2(targetDistance, (userMean * 12) \div 10)
           ELSE (targetDistance * (100 - weight) + userMean * weight) \div 100

selectPreferredDirection(directions, trainingGoal) ==
  IF Len(directions) = 0
  THEN [bearing |-> DefaultBearing(trainingGoal), preference |-> 50, source |-> "default"]
  ELSE [bearing |-> directions[1].bearing, preference |-> directions[1].preference,
        source |-> "historical"]

\* elevationTarget and confidence of the result are read by no caller
generateRouteFromPatterns(patterns, startLocation, targetDistance, trainingGoal) ==
  [adjustedDistance |-> adjustDistanceBasedOnPatterns(targetDistance, patterns, trainingGoal),
   preferredDirection |-> selectPreferredDirection(patterns.preferredDirections, trainingGoal),
   nearbyFrequentAreas |-> NearbyAreas(patterns.frequentAreas, startLocation)]

(***************************************************************************)
(* aiRouteGenerator.js                                                     *)
(***************************************************************************)

Goals == {"recovery", "endurance", "intervals", "hills"}
RouteTypes == {"loop", "out_back", "point_to_point", "unknown"}

\* speedMap[trainingGoal] || 23
SpeedForGoal(trainingGoal) ==
  CASE trainingGoal = "recovery" -> 20
    [] trainingGoal = "endurance" -> 25
    [] trainingGoal = "intervals" -> 22
    [] trainingGoal = "hills" -> 18
    [] OTHER -> 23

calculateTargetDistance(timeMinutes, trainingGoal) ==
  (timeMinutes * SpeedForGoal(trainingGoal) * KM) \div 60

\* the patterns of generateLoopRoutes and the directions of
\* generateOutAndBackRoutes, in generation order
LoopPatterns ==
  << [name |-> "North Loop", bearing |-> 0,   variation |-> "north"],
     [name |-> "East Loop",  bearing |-> 90,  variation |-> "east"],
     [name |-> "South Loop", bearing |-> 180, variation |-> "south"],
     [name |-> "West Loop",  bearing |-> 270, variation |-> "west"] >>

\* patterns.sort((a, b) => aDiff - bDiff), the differences taken from the
\* preferred bearing: stable, ascending
RECURSIVE InsertByBearingDiff(_, _, _)
InsertByBearingDiff(e, s, preferredBearing) ==
  IF s = <<>> THEN <<e>>
  ELSE IF Abs(e.bearing - preferredBearing) < Abs(Head(s).bearing - preferredBearing)
       THEN <<e>> \o s
  ELSE <<Head(s)>> \o InsertByBearingDiff(e, Tail(s), preferredBearing)

RECURSIVE SortByBearingDiff(_, _)
SortByBearingDiff(s, preferredBearing) ==
  IF s = <<>> THEN <<>>
  ELSE InsertByBearingDiff(s[Len(s)],
                           SortByBearingDiff(SubSeq(s, 1, Len(s) - 1), preferredBearing),
                           preferredBearing)

\* the patterns of generateLoopRoutes in the order its for loop takes them
PrioritizedPatterns(suggestions) ==
  IF suggestions # <<>> /\ suggestions[1].preferredDirection.source = "historical"
  THEN SortByBearingDiff(LoopPatterns, suggestions[1].preferredDirection.bearing)
  ELSE LoopPatterns

OutAndBackDirections ==
  << [name |-> "North Route",     bearing |-> 0],
     [name |-> "Northeast Route", bearing |-> 45],
     [name |-> "East Route",      bearing |-> 90],
     [name |-> "Southeast Route", bearing |-> 135] >>

\* gain / distance < k and > k as JavaScript evaluates them, in metres per km;
\* gainScaled is the gain in metres times KM.  A zero distance gives
\* Infinity (gain > 0), -Infinity (gain < 0) or NaN (gain = 0, every
\* comparison false).
RatioLess(gainScaled, distance, k) ==
  IF distance > 0 THEN gainScaled < k * distance ELSE gainScaled < 0
RatioGreater(gainScaled, distance, k) ==
  IF distance > 0 THEN gainScaled > k * distance ELSE gainScaled > 0

calculateDifficulty(distance, gainScaled) ==
  IF RatioLess(gainScaled, distance, 10) THEN "easy"
  ELSE IF RatioLess(gainScaled, distance, 25) THEN "moderate"
  ELSE "hard"

\* params.startLocation, and a place 60 km east of it
StartLocation == [lon |-> 0, lat |-> 0]
FarLocation == [lon |-> 540, lat |-> 0]

\* A coordinate list is held by what built it, its length, the point
\* calculateRouteCenter gives for it and, for waypoints, how many of them are
\* centres of frequent areas.
NoCoordinates == [kind |-> "none", n |-> 0, center |-> StartLocation, areas |-> 0]
\* generateMockCoordinates: the start, 8 points 45 degrees apart on a circle
\* around it, the start
generateMockCoordinates(startLocation, targetDistance) ==
  [kind |-> "octagon", n |-> 10, center |-> startLocation, areas |-> 0]

\* radius * 2 of generateLoopPattern, radius = targetDistance / (2 pi) * 0.9 km,
\* in units of 0.001 degree with pi = 355 / 113
LoopDiameterUnits(targetDistance) == (targetDistance * 9153) \div 426000

\* every i-th nearby area is taken, however far it is
AnyAreaUsed(nearbyAreas, i, startLocation, wantedDistance) == i <= Len(nearbyAreas)

\* nearbyAreas.length > 0 && i <= nearbyAreas.length, and
\* calculateDistance(startLocation, area.center) < radius * 2 for area = nearbyAreas[i - 1]
AreaUsed(nearbyAreas, i, startLocation, wantedDistance) ==
  /\ i <= Len(nearbyAreas)
  /\ WithinUnits(startLocation, nearbyAreas[i].center, LoopDiameterUnits(wantedDistance))

\* the frequent areas generateLoopPattern takes as waypoints: the i-th nearby
\* area, i <= numPoints = 4, when it is nearer than radius * 2
AreasTaken(nearbyAreas, startLocation, wantedDistance) ==
  Cardinality({i \in 1..4 : AreaUsed(nearbyAreas, i, startLocation, wantedDistance)})

\* patternBasedSuggestions?.nearbyFrequentAreas || []
NearbyOf(suggestions) ==
  IF suggestions = <<>> THEN <<>> ELSE suggestions[1].nearbyFrequentAreas

\* the waypoints of generateLoopPattern: start, numPoints = 4 points, start.
\* Their centre is less than 4 km from the start (four points within 1.3
\* radius, the start twice), and the rides of the model give an area within
\* 1 km of the start or only areas more than 50 km away, so the 5 km test of
\* the scorer answers for the centre as it does for the start.
LoopWaypoints(startLocation, targetDistance, suggestions) ==
  [kind |-> "waypoints", n |-> 6, center |-> startLocation,
   areas |-> AreasTaken(NearbyOf(suggestions), startLocation, targetDistance)]

MockGainFactor(trainingGoal) ==
  IF trainingGoal = "hills" THEN 25
  ELSE IF trainingGoal = "recovery" THEN 5
  ELSE 15

\* createMockRoute(name, targetDistance, trainingGoal, startLocation = null)
createMockRoute(name, targetDistance, trainingGoal, withStart) ==
  [name |-> name,
   distance |-> targetDistance,
   elevationGain |-> RoundDiv(targetDistance * MockGainFactor(trainingGoal), KM),
   coordinates |-> IF withStart THEN generateMockCoordinates(StartLocation, targetDistance)
                   ELSE NoCoordinates,
   difficulty |-> calculateDifficulty(targetDistance,
                                      targetDistance * MockGainFactor(trainingGoal)),
   trainingGoal |-> trainingGoal,
   pattern |-> "mock",
   confidence |-> 50,
   windFactor |-> 80,
   score |-> (6 * ONE) \div 10]

\* calculateWindFactor: 0.8 without weather data or with fewer than 2
\* coordinates, else the mean of getWindFactor over the legs
calculateWindFactor(coordinates, weather) ==
  IF weather = <<>> \/ coordinates.n < 2 THEN 80 ELSE weather[1].windFactor

\* the route object generateLoopPattern returns on the success path; a
\* realized route has no score field until scoreRoutes adds it (held as -1)
RealizedRoute(pattern, snapped, gain, trainingGoal, weather) ==
  [name |-> pattern.name,
   distance |-> snapped.distance,
   elevationGain |-> gain,
   coordinates |-> snapped.coordinates,
   difficulty |-> calculateDifficulty(snapped.distance, gain * KM),
   trainingGoal |-> trainingGoal,
   pattern |-> pattern.variation,
   confidence |-> snapped.confidence,
   windFactor |-> calculateWindFactor(snapped.coordinates, weather),
   score |-> 0 - 1]

\* what getCyclingDirections and mapMatchRoute return on a non-2xx response, a
\* response without routes / matchings, or a network error
FailedSnap(waypoints) == [coordinates |-> waypoints, distance |-> 0, confidence |-> 0]

\* !snappedRoute.coordinates || snappedRoute.coordinates.length < 2
NoUsableCoordinates(snapped) == snapped.coordinates.n < 2

AlwaysMapMatch(snapped) == TRUE

\* the fall-back test of generateLoopPattern after the directions call
NeedsMapMatching(snapped) == NoUsableCoordinates(snapped) \/ snapped.confidence < 50

(***************************************************************************)
(* Scoring (scoreRoutes and its helpers)                                   *)
(***************************************************************************)

getTrainingGoalScore(route, goal) ==
  CASE goal = "hills" ->
         IF RatioGreater(route.elevationGain * KM, route.distance, 20)
         THEN (2 * ONE) \div 10 ELSE 0 - ONE \div 10
    [] goal = "recovery" ->
         IF RatioLess(route.elevationGain * KM, route.distance, 15)
         THEN (2 * ONE) \div 10 ELSE 0 - ONE \div 10
    [] goal = "intervals" ->
         IF route.windFactor > 80 THEN (15 * ONE) \div 100 ELSE 0
    [] OTHER -> ONE \div 10

\* conditions ? conditions.score * 0.2 : 0, where conditions is what
\* getOptimalTrainingConditions gives for the weather (<<>> when it gives none)
getWeatherScore(route, weather) ==
  IF weather.conditions = <<>> THEN 0
  ELSE (weather.conditions[1] * 2 * ONE) \div 1000

\* |distance / 23 * 60 - timeAvailable| < minutes
TimeDiffLess(distance, timeAvailable, minutes) ==
  Abs(60 * distance - 23 * timeAvailable * KM) < minutes * 23 * KM

getTimeEfficiencyScore(route, timeAvailable) ==
  IF TimeDiffLess(route.distance, timeAvailable, 10) THEN (2 * ONE) \div 10
  ELSE IF TimeDiffLess(route.distance, timeAvailable, 20) THEN ONE \div 10
  ELSE 0 - ONE \div 10

getRouteQualityScore(route) ==
  (IF route.confidence > 80 THEN ONE \div 10 ELSE 0)
  + ((route.windFactor - 80) * 5 * ONE) \div 1000

\* calculatePatternConfidence of aiRouteGenerator.js, in hundredths
calculatePatternConfidence(patterns) ==
  LET hasMean == HasMeanDistance(patterns)
      hasAreas == Len(patterns.frequentAreas) > 0
      hasDirs == Len(patterns.preferredDirections) > 0
      hasElev == patterns.elevationTolerance.hasMean
      score == (IF hasMean THEN 30 ELSE 0)
               + (IF hasAreas THEN 10 * Min2(Len(patterns.frequentAreas), 3) ELSE 0)
               + (IF hasDirs THEN (20 * patterns.preferredDirections[1].preference) \div 100 ELSE 0)
               + (IF hasElev THEN 20 ELSE 0)
      factors == (IF hasMean THEN 1 ELSE 0) + (IF hasAreas THEN 1 ELSE 0)
                 + (IF hasDirs THEN 1 ELSE 0) + (IF hasElev THEN 1 ELSE 0)
  IN  IF factors > 0 THEN score \div factors ELSE 50

\* the distance-preference part of getHistoricalPatternScore
DistancePreferenceScore(route, patterns) ==
  IF ~HasMeanDistance(patterns) THEN 0
  ELSE LET userMean == patterns.preferredDistances.mean
           diff == Abs(route.distance - userMean)
       IN  IF 10 * diff < 2 * userMean THEN (15 * ONE) \div 100
           ELSE IF 10 * diff < 4 * userMean THEN ONE \div 10
           ELSE IF diff > userMean THEN 0 - ONE \div 10
           ELSE 0

\* the elevation-preference part: preferredRatio = preferred / mean || 15 as the
\* fraction pn / pd (metres per distance unit); elevationRatio = gain / distance
ElevationPreferenceScore(route, patterns) ==
  LET preferred == patterns.elevationTolerance.preferred
      pn == IF HasMeanDistance(patterns) THEN preferred ELSE 15
      pd == IF HasMeanDistance(patterns) THEN patterns.preferredDistances.mean ELSE KM
      g == route.elevationGain
      d == route.distance
  IN  IF preferred = 0 THEN 0
      ELSE IF d = 0 THEN (IF g = 0 THEN 0
                          ELSE IF pn > 0 THEN 0 - (5 * ONE) \div 100
                          ELSE ONE \div 10)
      ELSE IF pn < 0 THEN ONE \div 10
      ELSE IF 10 * Abs(g * pd - pn * d) < 3 * pn * d THEN ONE \div 10
      ELSE IF 10 * Abs(g * pd - pn * d) > 15 * pn * d THEN 0 - (5 * ONE) \div 100
      ELSE 0

\* the frequent-area bonus: the centre of the route is within 5 km of an area
FrequentAreaScore(route, patterns) ==
  IF /\ Len(patterns.frequentAreas) > 0
     /\ route.coordinates.n > 0
     /\ \E i \in DOMAIN patterns.frequentAreas :
          DistanceBelow(route.coordinates.center, patterns.frequentAreas[i].center, 5)
  THEN ONE \div 10 ELSE 0

getHistoricalPatternScore(route, patterns) ==
  ((DistancePreferenceScore(route, patterns) + ElevationPreferenceScore(route, patterns)
    + FrequentAreaScore(route, patterns))
   * calculatePatternConfidence(patterns)) \div 100

\* the sum scoreRoutes builds before clamping
RawScore(route, trainingGoal, weatherData, timeAvailable, ridingPatterns) ==
  ONE \div 2
  + getTrainingGoalScore(route, trainingGoal)
  + (IF weatherData # <<>> THEN getWeatherScore(route, weatherData[1]) ELSE 0)
  + getTimeEfficiencyScore(route, timeAvailable)
  + getRouteQualityScore(route)
  + (IF ridingPatterns # <<>> THEN getHistoricalPatternScore(route, ridingPatterns[1]) ELSE 0)

\* the score left as summed
UnclampedScore(score) == score

\* Math.max(0, Math.min(1, score))
Clamp01(score) == Max2(0, Min2(ONE, score))

\* { ...route, score: clamp(score) }
ScoreRoute(route, trainingGoal, weatherData, timeAvailable, ridingPatterns) ==
  [route EXCEPT !.score =
     Clamp01(RawScore(route, trainingGoal, weatherData, timeAvailable, ridingPatterns))]

\* Array.prototype.sort((a, b) => b.score - a.score): stable, descending
RECURSIVE InsertByScore(_, _)
InsertByScore(r, s) ==
  IF s = <<>> THEN <<r>>
  ELSE IF r.score > Head(s).score THEN <<r>> \o s
  ELSE <<Head(s)>> \o InsertByScore(r, Tail(s))

\* the scored list left in generation order
UnsortedRoutes(s) == s

RECURSIVE SortByScoreDesc(_)
SortByScoreDesc(s) ==
  IF s = <<>> THEN <<>>
  ELSE InsertByScore(s[Len(s)], SortByScoreDesc(SubSeq(s, 1, Len(s) - 1)))

scoreRoutes(rs, trainingGoal, weatherData, timeAvailable, ridingPatterns) ==
  SortByScoreDesc([i \in DOMAIN rs |->
    ScoreRoute(rs[i], trainingGoal, weatherData, timeAvailable, ridingPatterns)])

\* scoredRoutes.slice(0, 4)
TopRoutes(scored) == SubSeq(scored, 1, Min2(4, Len(scored)))

\* a distance held in half units, as a whole number of units
WholeUnits(halfUnits) == halfUnits \div 2

\* the mock route of the outward leg alone
OutLegOnly(halfDistance, direction, goal) ==
  createMockRoute(direction.name, WholeUnits(halfDistance), goal, TRUE)

\* createMockRoute(direction.name, halfDistance * 2, trainingGoal, startLocation);
\* halfDistance is held in half units
generateOutAndBackPattern(halfDistance, direction, goal) ==
  createMockRoute(direction.name, WholeUnits(halfDistance * 2), goal, TRUE)

\* halfDistance = targetDistance / 2 is wantedDistance half units
generateOutAndBackRoutes(wantedDistance, goal) ==
  LET halfDistance == wantedDistance
  IN  [i \in DOMAIN OutAndBackDirections |->
         generateOutAndBackPattern(halfDistance, OutAndBackDirections[i], goal)]

\* generatePointToPointRoutes delegates to generateOutAndBackRoutes
generatePointToPointRoutes(targetDistance, trainingGoal) ==
  generateOutAndBackRoutes(targetDistance, trainingGoal)

\* the route put in front of the list
UnshiftRoute(rs, route) == <<route>> \o rs

\* routes.push(route)
PushRoute(rs, route) == Append(rs, route)

\* fetchPastRides without its catch block
fetchPastRidesUncaught(outcome) ==
  CASE outcome.kind = "rides" -> [threw |-> FALSE, rides |-> outcome.rides]
    [] outcome.kind = "error" -> [threw |-> FALSE, rides |-> <<>>]
    [] outcome.kind = "null" -> [threw |-> FALSE, rides |-> <<>>]
    [] outcome.kind = "throw" -> [threw |-> TRUE, rides |-> <<>>]

\* fetchPastRides: the store answers with rides, with { error }, with
\* { data: null } or the query throws; threw tells whether the call itself
\* threw (it never does: the catch block returns [])
fetchPastRides(outcome) ==
  CASE outcome.kind = "rides" -> [threw |-> FALSE, rides |-> outcome.rides]
    [] outcome.kind = "error" -> [threw |-> FALSE, rides |-> <<>>]
    [] outcome.kind = "null" -> [threw |-> FALSE, rides |-> <<>>]
    [] outcome.kind = "throw" -> [threw |-> FALSE, rides |-> <<>>]

(***************************************************************************)
(* The environment of one generateAIRoutes request                          *)
(***************************************************************************)

Ride(d, e) == [distance |-> d, elevation_gain |-> e, track_points |-> <<>>]

\* a recorded track of 11 points from a place along a compass direction
Track(from, dLon, dLat) ==
  [i \in 1..11 |-> [lon |-> from.lon + (i - 1) * dLon, lat |-> from.lat + (i - 1) * dLat]]
TrackedRide(d, e, track) == [distance |-> d, elevation_gain |-> e, track_points |-> track]

\* what the ride history store can hold for the user
StoreContents ==
  { << Ride(<<10 * KM>>, <<100>>), Ride(<<20 * KM>>, <<300>>), Ride(<<30 * KM>>, <<600>>) >>,
    << Ride(<<>>, <<>>), Ride(<<0>>, <<>>) >>,
    << TrackedRide(<<20 * KM>>, <<300>>, Track(StartLocation, 0 - 3, 0)),
       TrackedRide(<<30 * KM>>, <<200>>, Track(StartLocation, 0 - 3, 0)),
       TrackedRide(<<20 * KM>>, <<>>, Track(StartLocation, 0, 0 - 2)) >>,
    << TrackedRide(<<40 * KM>>, <<900>>, Track(FarLocation, 1, 1)),
       Ride(<<20 * KM>>, <<100>>) >>,
    << Ride(<<20 * KM>>, <<100>>) >> }

StoreOutcomes ==
  { [kind |-> "rides", rides |-> r] : r \in StoreContents \cup {<<>>} }
  \cup { [kind |-> k, rides |-> <<>>] : k \in {"error", "null", "throw"} }

\* wind factor of the routes under this weather and the rating of
\* getOptimalTrainingConditions for it (<<>>: no rating)
WeatherValues ==
  { [windFactor |-> 0, conditions |-> <<>>],
    [windFactor |-> 120, conditions |-> <<100>>] }

\* getWeatherData resolves with data, resolves with null, or rejects
WeatherOutcomes == { <<w>> : w \in WeatherValues } \cup { <<>> }

TimeBudgets == {36, 60}

\* distances (in metres at the provider, here in distance units) and match
\* confidences the providers answer with
Snapped(n, center) == [kind |-> "snapped", n |-> n, center |-> center, areas |-> 0]
\* (a route geometry of a single point is answered for the north loop only)
DirectionsAnswers(waypoints, pattern) ==
  { [coordinates |-> Snapped(40, StartLocation), distance |-> 23 * KM, confidence |-> 90],
    FailedSnap(waypoints) }
  \cup (IF pattern.variation = "north"
        THEN { [coordinates |-> Snapped(1, StartLocation), distance |-> 0, confidence |-> 90] }
        ELSE {})
MatchingAnswers(waypoints) ==
  { [coordinates |-> Snapped(30, FarLocation), distance |-> 40 * KM, confidence |-> 30],
    [coordinates |-> Snapped(1, StartLocation), distance |-> 0, confidence |-> 95],
    FailedSnap(waypoints) }
\* total climb of the elevation profile the elevation provider samples
TerrainGains == {0, 600}

NoSnap == [coordinates |-> NoCoordinates, distance |-> 0, confidence |-> 0]

(***************************************************************************)
(* State                                                                   *)
(*   - one generateAIRoutes request (parameters, position, locals, the     *)
(*     call in flight and a log of how each candidate's calls ended)       *)
(*   - a caller of analyzeRidingPatterns holding the profiles it got       *)
(*   - the segments handed to buildSegmentDatabase and its result          *)
(***************************************************************************)
VARIABLES
  trainingGoal, routeType, timeAvailable, userId, providedWeather, mapboxToken,
  terrainGain,
  pc, weatherData, storeOutcome, fetchThrew, pastRides, ridingPatterns,
  patternBasedSuggestions, targetDistance, patternIdx, awaiting, hung,
  snappedRoute, routes, result, callLog,
  rides, heap, returned, observed,
  allSegments, segmentDatabase, segmentTarget, segmentRoute,
  keyPointList, routeShape,
  trackList, keyPointsOut, segmentsOut,
  sampleList, clustersOut, areasOut,
  distanceList, distributionOut,
  bearingList, preferencesOut,
  loopRequest, loopWaypoints,
  points, useSnap, snapToken, edits, effectPending, requests,
  snapping, snapProgress, snappedCoords, routeMetadata, elevationProfile,
  elevationStats, lastWrite,
  user, selectedFiles, processingFiles, processedFiles, selectedForSave, saving,
  savingProgress, globalError, saveRun, insertLog, reading

paramVars == <<trainingGoal, routeType, timeAvailable, userId, providedWeather,
               mapboxToken, terrainGain>>
genVars == <<pc, weatherData, storeOutcome, fetchThrew, pastRides, ridingPatterns,
             patternBasedSuggestions, targetDistance, patternIdx, awaiting, hung,
             snappedRoute, routes, result, callLog>>
patVars == <<rides, heap, returned, observed>>
segVars == <<allSegments, segmentDatabase, segmentTarget, segmentRoute>>
shapeVars == <<keyPointList, routeShape>>
trackVars == <<trackList, keyPointsOut, segmentsOut>>
areaVars == <<sampleList, clustersOut, areasOut>>
statVars == <<distanceList, distributionOut>>
dirVars == <<bearingList, preferencesOut>>
analysisVars == <<shapeVars, trackVars, areaVars, statVars, dirVars>>
loopVars == <<loopRequest, loopWaypoints>>
snapVars == <<snapping, snapProgress, snappedCoords, routeMetadata, elevationProfile,
              elevationStats, lastWrite>>
builderVars == <<points, useSnap, snapToken, edits, effectPending, requests, snapVars>>
fileVars == <<selectedFiles, processingFiles, processedFiles, selectedForSave>>
uploadVars == <<user, fileVars, saving, savingProgress, globalError, saveRun, insertLog,
               reading>>
vars == <<paramVars, genVars, patVars, segVars, analysisVars, loopVars, builderVars,
          uploadVars>>

NoRequest ==
  /\ trainingGoal = "recovery"
  /\ routeType = "loop"
  /\ timeAvailable = 60
  /\ userId = FALSE
  /\ providedWeather = <<>>
  /\ mapboxToken = FALSE
  /\ terrainGain = 0
  /\ pc = "idle"
  /\ weatherData = <<>>
  /\ storeOutcome = "none"
  /\ fetchThrew = FALSE
  /\ pastRides = <<>>
  /\ ridingPatterns = <<>>
  /\ patternBasedSuggestions = <<>>
  /\ targetDistance = 0
  /\ patternIdx = 0
  /\ awaiting = "none"
  /\ hung = FALSE
  /\ snappedRoute = NoSnap
  /\ routes = <<>>
  /\ result = <<>>
  /\ callLog = <<>>

NoProfiles ==
  /\ rides = <<>>
  /\ heap = <<>>
  /\ returned = 0
  /\ observed = <<>>

NoSegments ==
  /\ allSegments = <<>>
  /\ segmentDatabase = <<>>
  /\ segmentTarget = 0
  /\ segmentRoute = <<>>

\* no call of the single analysis functions yet (<<>>: no result)
NoShape == keyPointList = <<>> /\ routeShape = "none"
NoTrack == trackList = <<>> /\ keyPointsOut = <<>> /\ segmentsOut = <<>>
NoSamples == sampleList = <<>> /\ clustersOut = <<>> /\ areasOut = <<>>
NoDistances == distanceList = <<>> /\ distributionOut = <<>>
NoBearings == bearingList = <<>> /\ preferencesOut = <<>>
NoLoopCall == loopRequest = <<>> /\ loopWaypoints = <<>>
NoAnalysis == NoShape /\ NoTrack /\ NoSamples /\ NoDistances /\ NoBearings /\ NoLoopCall

\* the useState values of RouteBuilder before its first effect has run; 0 is
\* an empty list or null
RouteBuilderState ==
  /\ points = 0
  /\ useSnap = TRUE
  /\ edits = 0
  /\ requests = <<>>
  /\ snapping = FALSE
  /\ snapProgress = 0
  /\ snappedCoords = 0
  /\ routeMetadata = 0
  /\ elevationProfile = 0
  /\ elevationStats = 0
  /\ lastWrite = <<>>
\* no RouteBuilder is mounted
NoBuilder == RouteBuilderState /\ snapToken = FALSE /\ effectPending = FALSE
\* the useState values of FileUpload; a Map is a function, a Set in iteration
\* order a sequence, <<>> is null
FileUploadState ==
  /\ selectedFiles = {}
  /\ processingFiles = {}
  /\ processedFiles = <<>>
  /\ selectedForSave = <<>>
  /\ saving = FALSE
  /\ savingProgress = [current |-> 0, total |-> 0]
  /\ globalError = <<>>
  /\ saveRun = <<>>
  /\ insertLog = <<>>
  /\ reading = {}
\* no FileUpload is mounted
NoUpload == FileUploadState /\ user = FALSE
NoFrontend == NoBuilder /\ NoUpload

InitRequest ==
  /\ trainingGoal \in Goals
  /\ routeType \in RouteTypes
  /\ timeAvailable \in TimeBudgets
  /\ userId \in BOOLEAN
  /\ providedWeather \in {<<>>, <<[windFactor |-> 120, conditions |-> <<100>>]>>}
  /\ mapboxToken \in BOOLEAN
  /\ terrainGain \in TerrainGains
  /\ pc = "start"
  /\ weatherData = <<>>
  /\ storeOutcome = "none"
  /\ fetchThrew = FALSE
  /\ pastRides = <<>>
  /\ ridingPatterns = <<>>
  /\ patternBasedSuggestions = <<>>
  /\ targetDistance = 0
  /\ patternIdx = 0
  /\ awaiting = "none"
  /\ hung = FALSE
  /\ snappedRoute = NoSnap
  /\ routes = <<>>
  /\ result = <<>>
  /\ callLog = <<>>

(***************************************************************************)
(* generateAIRoutes                                                        *)
(***************************************************************************)

\* lines 22-26: the weather is fetched unless the caller provided it; the await
\* is outside every try block, so a rejection rejects generateAIRoutes
GetWeather ==
  /\ pc = "start"
  /\ \/ /\ providedWeather # <<>>
        /\ weatherData' = providedWeather
        /\ pc' = "history"
     \/ /\ providedWeather = <<>>
        /\ \E w \in WeatherOutcomes : weatherData' = w
        /\ pc' = "history"
     \/ /\ providedWeather = <<>>
        /\ weatherData' = <<>>
        /\ pc' = "rejected"
  /\ UNCHANGED <<paramVars, loopVars, builderVars, uploadVars, storeOutcome, fetchThrew, pastRides, ridingPatterns,
                 patternBasedSuggestions, targetDistance, patternIdx, awaiting, hung,
                 snappedRoute, routes, result, callLog, patVars, segVars, analysisVars>>

\* the suggestions are not consulted
BaselineTarget(suggestions, baseline) == baseline

\* patternBasedSuggestions?.adjustedDistance is truthy
AdjustedTarget(suggestions, baseline) ==
  IF suggestions # <<>> /\ suggestions[1].adjustedDistance # 0
  THEN suggestions[1].adjustedDistance ELSE baseline

\* lines 28-54: past rides, patterns, suggestions, target distance; an
\* exception inside the try block leaves both patterns and suggestions null
AnalyzePastRides ==
  /\ pc = "history"
  /\ LET baseline == calculateTargetDistance(timeAvailable, trainingGoal)
     IN  \/ /\ ~userId
            /\ UNCHANGED <<storeOutcome, fetchThrew, pastRides, ridingPatterns,
                           patternBasedSuggestions>>
            /\ targetDistance' = baseline
         \/ /\ userId
            /\ \E o \in StoreOutcomes :
                 LET fetched == fetchPastRides(o)
                     patterns == analyzeRidingPatterns(<<fetched.rides>>)
                     suggestions == generateRouteFromPatterns(patterns, StartLocation, baseline,
                                                              trainingGoal)
                 IN  /\ storeOutcome' = o.kind
                     /\ fetchThrew' = fetched.threw
                     /\ pastRides' = fetched.rides
                     /\ ridingPatterns' = IF fetched.threw THEN <<>> ELSE <<patterns>>
                     /\ patternBasedSuggestions' = IF fetched.threw THEN <<>> ELSE <<suggestions>>
                     /\ targetDistance' =
                          AdjustedTarget(IF fetched.threw THEN <<>> ELSE <<suggestions>>, baseline)
  /\ pc' = "variations"
  /\ UNCHANGED <<paramVars, loopVars, builderVars, uploadVars, weatherData, patternIdx, awaiting, hung, snappedRoute,
                 routes, result, callLog, patVars, segVars, analysisVars>>

\* generateRouteVariations: the switch on routeType (no default case)
GenerateVariations ==
  /\ pc = "variations"
  /\ \/ /\ routeType = "loop"
        /\ pc' = "loop"
        /\ patternIdx' = 1
        /\ routes' = <<>>
     \/ /\ routeType = "out_back"
        /\ pc' = "score"
        /\ patternIdx' = 0
        /\ routes' = generateOutAndBackRoutes(targetDistance, trainingGoal)
     \/ /\ routeType = "point_to_point"
        /\ pc' = "score"
        /\ patternIdx' = 0
        /\ routes' = generatePointToPointRoutes(targetDistance, trainingGoal)
     \/ /\ routeType \notin {"loop", "out_back", "point_to_point"}
        /\ pc' = "score"
        /\ patternIdx' = 0
        /\ routes' = <<>>
  /\ UNCHANGED <<paramVars, loopVars, builderVars, uploadVars, weatherData, storeOutcome, fetchThrew, pastRides,
                 ridingPatterns, patternBasedSuggestions, targetDistance, awaiting,
                 hung, snappedRoute, result, callLog, patVars, segVars, analysisVars>>

\* the for loop of generateLoopRoutes moves to the next pattern, or returns
NextPattern(i) == IF i < Len(LoopPatterns) THEN i + 1 ELSE 0
AfterPattern(i) == IF i < Len(LoopPatterns) THEN "loop" ELSE "score"

\* the pattern the for loop of generateLoopRoutes is at, and the waypoints
\* generateLoopPattern builds for it
CurrentPattern == PrioritizedPatterns(patternBasedSuggestions)[patternIdx]
CurrentWaypoints == LoopWaypoints(StartLocation, targetDistance, patternBasedSuggestions)

NoCalls == [directions |-> "none", matching |-> "none", elevation |-> "none"]
\* how an answer is logged: a failure result (non-2xx, no route / matching,
\* network error) or an answer of the provider
AnswerKind(answer) == IF answer.coordinates.kind = "waypoints" THEN "failed" ELSE "answered"

\* generateLoopPattern up to its first await: without a token the mock route
\* (no start location passed) is returned, else the directions call is issued
LoopPatternBegin ==
  /\ pc = "loop"
  /\ awaiting = "none"
  /\ callLog' = Append(callLog, NoCalls)
  /\ \/ /\ ~mapboxToken
        /\ routes' = PushRoute(routes,
             createMockRoute(CurrentPattern.name, targetDistance, trainingGoal, FALSE))
        /\ patternIdx' = NextPattern(patternIdx)
        /\ pc' = AfterPattern(patternIdx)
        /\ UNCHANGED awaiting
     \/ /\ mapboxToken
        /\ awaiting' = "directions"
        /\ UNCHANGED <<routes, patternIdx, pc>>
  /\ UNCHANGED <<paramVars, loopVars, builderVars, uploadVars, weatherData, storeOutcome, fetchThrew, pastRides,
                 ridingPatterns, patternBasedSuggestions, targetDistance, hung,
                 snappedRoute, result, patVars, segVars, analysisVars>>

\* getCyclingDirections settles; lines 218-228
DirectionsReturn ==
  /\ pc = "loop"
  /\ awaiting = "directions"
  /\ ~hung
  /\ \E answer \in DirectionsAnswers(CurrentWaypoints, CurrentPattern) :
       /\ snappedRoute' = answer
       /\ callLog' = [callLog EXCEPT ![patternIdx].directions = AnswerKind(answer)]
       /\ awaiting' = IF NeedsMapMatching(answer) THEN "matching" ELSE "elevation"
  /\ UNCHANGED <<paramVars, loopVars, builderVars, uploadVars, pc, weatherData, storeOutcome, fetchThrew, pastRides,
                 ridingPatterns, patternBasedSuggestions, targetDistance, patternIdx,
                 hung, routes, result, patVars, segVars, analysisVars>>

\* mapMatchRoute settles; lines 225-233
MatchingReturn ==
  /\ pc = "loop"
  /\ awaiting = "matching"
  /\ ~hung
  /\ \E answer \in MatchingAnswers(CurrentWaypoints) :
       /\ callLog' = [callLog EXCEPT ![patternIdx].matching = AnswerKind(answer)]
       /\ \/ /\ NoUsableCoordinates(answer)
             /\ routes' = PushRoute(routes,
                  createMockRoute(CurrentPattern.name, targetDistance,
                                  trainingGoal, TRUE))
             /\ snappedRoute' = NoSnap
             /\ awaiting' = "none"
             /\ patternIdx' = NextPattern(patternIdx)
             /\ pc' = AfterPattern(patternIdx)
          \/ /\ ~NoUsableCoordinates(answer)
             /\ snappedRoute' = answer
             /\ awaiting' = "elevation"
             /\ UNCHANGED <<routes, patternIdx, pc>>
  /\ UNCHANGED <<paramVars, loopVars, builderVars, uploadVars, weatherData, storeOutcome, fetchThrew, pastRides,
                 ridingPatterns, patternBasedSuggestions, targetDistance, hung, result,
                 patVars, segVars, analysisVars>>

\* fetchElevationProfile settles (it never rejects); lines 236-252
ElevationReturn ==
  /\ pc = "loop"
  /\ awaiting = "elevation"
  /\ ~hung
  /\ callLog' = [callLog EXCEPT ![patternIdx].elevation = "answered"]
  /\ routes' = PushRoute(routes,
       RealizedRoute(CurrentPattern, snappedRoute, terrainGain, trainingGoal,
                     weatherData))
  /\ snappedRoute' = NoSnap
  /\ awaiting' = "none"
  /\ patternIdx' = NextPattern(patternIdx)
  /\ pc' = AfterPattern(patternIdx)
  /\ UNCHANGED <<paramVars, loopVars, builderVars, uploadVars, weatherData, storeOutcome, fetchThrew, pastRides,
                 ridingPatterns, patternBasedSuggestions, targetDistance, hung, result,
                 patVars, segVars, analysisVars>>

\* the provider never answers the call in flight: no timer is armed around
\* the awaits, so nothing in the program reacts
CallNeverCompletes ==
  /\ pc = "loop"
  /\ awaiting # "none"
  /\ ~hung
  /\ hung' = TRUE
  /\ UNCHANGED <<paramVars, loopVars, builderVars, uploadVars, pc, weatherData, storeOutcome, fetchThrew, pastRides,
                 ridingPatterns, patternBasedSuggestions, targetDistance, patternIdx,
                 awaiting, snappedRoute, routes, result, callLog, patVars, segVars, analysisVars>>

\* lines 67-76: scoreRoutes, then slice(0, 4)
ScoreAndReturn ==
  /\ pc = "score"
  /\ result' = TopRoutes(scoreRoutes(routes, trainingGoal, weatherData, timeAvailable,
                                     ridingPatterns))
  /\ pc' = "done"
  /\ UNCHANGED <<paramVars, loopVars, builderVars, uploadVars, weatherData, storeOutcome, fetchThrew, pastRides,
                 ridingPatterns, patternBasedSuggestions, targetDistance, patternIdx,
                 awaiting, hung, snappedRoute, routes, callLog, patVars, segVars, analysisVars>>

ProgramStep ==
  \/ GetWeather
  \/ AnalyzePastRides
  \/ GenerateVariations
  \/ LoopPatternBegin
  \/ ScoreAndReturn

ProviderStep ==
  \/ DirectionsReturn
  \/ MatchingReturn
  \/ ElevationReturn

Init == InitRequest /\ NoProfiles /\ NoSegments /\ NoAnalysis /\ NoFrontend
Next == ProgramStep \/ ProviderStep \/ CallNeverCompletes
Spec == Init /\ [][Next]_vars

(***************************************************************************)
(* A caller of analyzeRidingPatterns                                       *)
(***************************************************************************)

MaxRides == 3
MaxCalls == 2

RidePool ==
  { Ride(<<>>, <<>>),
    Ride(<<0>>, <<0>>),
    Ride(<<10 * KM>>, <<100>>),
    Ride(<<20 * KM>>, <<>>),
    Ride(<<30 * KM>>, <<600>>) }

\* the store hands over one more ride
SupplyRide ==
  /\ Len(rides) < MaxRides
  /\ \E r \in RidePool : rides' = Append(rides, r)
  /\ UNCHANGED <<heap, returned, observed, paramVars, loopVars, builderVars, uploadVars, genVars, segVars, analysisVars>>

\* analyzeRidingPatterns(rides), or analyzeRidingPatterns(undefined); observed
\* is what the caller sees at the return
CallAnalyzeRidingPatterns ==
  /\ Len(heap) < MaxCalls
  /\ \E arg \in {<<>>, <<rides>>} :
       LET r == AnalyzeCall(heap, arg)
       IN  /\ heap' = r.heap
           /\ returned' = r.ref
           /\ observed' = <<[arg |-> arg, value |-> r.heap[r.ref].value]>>
  /\ UNCHANGED <<rides, paramVars, loopVars, builderVars, uploadVars, genVars, segVars, analysisVars>>

\* what a caller may do to a profile object it holds
MutatedProfile(profile) ==
  [profile EXCEPT !.preferredDistances.mean = 99 * KM,
                  !.frequentAreas = <<AreaOf(<<StartLocation, StartLocation, StartLocation>>)>>]

CallerMutatesProfile ==
  /\ \E i \in DOMAIN heap :
       /\ heap[i].value.frequentAreas = <<>>
       /\ heap' = [heap EXCEPT ![i].value = MutatedProfile(@)]
  /\ UNCHANGED <<rides, returned, observed, paramVars, loopVars, builderVars, uploadVars, genVars, segVars, analysisVars>>

InitPatterns == NoRequest /\ NoProfiles /\ NoSegments /\ NoAnalysis /\ NoFrontend
NextPatterns == SupplyRide \/ CallAnalyzeRidingPatterns \/ CallerMutatesProfile
SpecPatterns == InitPatterns /\ [][NextPatterns]_vars

(***************************************************************************)
(* buildSegmentDatabase (project summary document)                         *)
(*                                                                         *)
(* Points are <<x, y>> in metres on the local plane; over the few km of a  *)
(* segment the haversine value of calculateDistance is the planar distance, *)
(* and it is compared squared.  Timestamps are in units of 10^9 ms.        *)
(***************************************************************************)

\* const tolerance = 0.005, compared with calculateDistance's kilometres: 5 m
tolerance == 5

\* calculateDistance(p, q) < limit, limit in metres
CloserThan(p, q, limit) ==
  (p[1] - q[1]) * (p[1] - q[1]) + (p[2] - q[2]) * (p[2] - q[2]) < limit * limit

\* bearingDiff > 180 ? 360 - bearingDiff : bearingDiff
NormalizedBearingDiff(b1, b2) ==
  IF Abs(b1 - b2) > 180 THEN 360 - Abs(b1 - b2) ELSE Abs(b1 - b2)

\* the merge test of buildSegmentDatabase
SimilarSegments(segment, dbSegment) ==
  /\ CloserThan(segment.startPoint, dbSegment.startPoint, tolerance)
  /\ CloserThan(segment.endPoint, dbSegment.endPoint, tolerance)
  /\ NormalizedBearingDiff(segment.bearing, dbSegment.bearing) < 30

\* a merge that takes the time of the segment merged last
MergeTakingLatest(dbSegment, segment) ==
  [dbSegment EXCEPT
     !.usageCount = @ + 1,
     !.lastUsed = segment.timestamp,
     !.coordinates = IF segment.coordinates.n > @.n THEN segment.coordinates ELSE @]

\* a merge that takes the whole longer segment, not only its coordinates
MergeAdopting(dbSegment, segment) ==
  IF segment.coordinates.n > dbSegment.coordinates.n
  THEN [segment EXCEPT !.timestamp = dbSegment.timestamp] @@
       [usageCount |-> dbSegment.usageCount + 1,
        lastUsed |-> Max2(dbSegment.lastUsed, segment.timestamp),
        quality |-> dbSegment.quality]
  ELSE [dbSegment EXCEPT !.usageCount = @ + 1,
                         !.lastUsed = Max2(@, segment.timestamp)]

\* the merge into dbSegment
MergeInto(dbSegment, segment) ==
  [dbSegment EXCEPT
     !.usageCount = @ + 1,
     !.lastUsed = Max2(@, segment.timestamp),
     !.coordinates = IF segment.coordinates.n > @.n THEN segment.coordinates ELSE @]

\* { ...segment, usageCount: 1, lastUsed, quality: 'proven' }
NewEntry(segment) ==
  [startPoint |-> segment.startPoint, endPoint |-> segment.endPoint,
   bearing |-> segment.bearing, distance |-> segment.distance,
   rideId |-> segment.rideId, timestamp |-> segment.timestamp,
   coordinates |-> segment.coordinates,
   usageCount |-> 1, lastUsed |-> segment.timestamp, quality |-> "proven"]

\* the body of allSegments.forEach: merge into the first similar entry, else push
AddToDatabase(db, segment) ==
  IF \E i \in DOMAIN db : SimilarSegments(segment, db[i])
  THEN LET first == CHOOSE i \in DOMAIN db :
                      /\ SimilarSegments(segment, db[i])
                      /\ \A j \in 1..(i - 1) : ~SimilarSegments(segment, db[j])
       IN  [db EXCEPT ![first] = MergeInto(db[first], segment)]
  ELSE Append(db, NewEntry(segment))

RECURSIVE GroupSegments(_, _)
GroupSegments(db, segments) ==
  IF segments = <<>> THEN db
  ELSE GroupSegments(AddToDatabase(db, Head(segments)), Tail(segments))

\* usageCount * 0.7 + lastUsed / 1000000000 * 0.3, times 10
EntryScore(e) == 7 * e.usageCount + 3 * e.lastUsed

RECURSIVE InsertByEntryScore(_, _)
InsertByEntryScore(e, s) ==
  IF s = <<>> THEN <<e>>
  ELSE IF EntryScore(e) > EntryScore(Head(s)) THEN <<e>> \o s
  ELSE <<Head(s)>> \o InsertByEntryScore(e, Tail(s))

\* segmentDatabase.sort((a, b) => scoreB - scoreA): stable, descending
RECURSIVE SortByEntryScore(_)
SortByEntryScore(s) ==
  IF s = <<>> THEN <<>>
  ELSE InsertByEntryScore(s[Len(s)], SortByEntryScore(SubSeq(s, 1, Len(s) - 1)))

buildSegmentDatabase(segments) == SortByEntryScore(GroupSegments(<<>>, segments))

MaxSegments == 3

Segment(id, start, end, bearing, ts, n) ==
  [startPoint |-> start, endPoint |-> end, bearing |-> bearing, distance |-> 2 * KM + id,
   rideId |-> id, timestamp |-> ts, coordinates |-> [of |-> id, n |-> n]]

\* segments extractRouteSegments may hand over: about 2 km long, 5 points or more
SegmentPool ==
  { Segment(1, <<0, 0>>,   <<0, 2000>>,   0,   1, 5),
    Segment(2, <<200, 0>>, <<0, 2300>>,   10,  2, 6),
    Segment(3, <<3, 0>>,   <<0, 2003>>,   5,   3, 7),
    Segment(4, <<0, 4>>,   <<0, 2004>>,   350, 2, 5),
    Segment(5, <<0, 2>>,   <<2, 2000>>,   40,  1, 8),
    Segment(6, <<0, 0>>,   <<2000, 0>>,   90,  4, 5),
    Segment(7, <<450, 0>>, <<450, 2000>>, 29,  2, 5) }

\* extractRouteSegments yields one more segment
ExtractSegment ==
  /\ Len(allSegments) < MaxSegments
  /\ \E seg \in SegmentPool : allSegments' = Append(allSegments, seg)
  /\ segmentDatabase' = <<>>
  /\ UNCHANGED <<segmentTarget, segmentRoute, paramVars, loopVars, builderVars, uploadVars, genVars, patVars, analysisVars>>

\* patterns.routeSegments = buildSegmentDatabase(allSegments)
BuildSegmentDatabase ==
  /\ allSegments # <<>>
  /\ segmentDatabase = <<>>
  /\ segmentDatabase' = buildSegmentDatabase(allSegments)
  /\ UNCHANGED <<allSegments, segmentTarget, segmentRoute, paramVars, loopVars, builderVars, uploadVars, genVars, patVars,
                 analysisVars>>

InitSegments == NoRequest /\ NoProfiles /\ NoSegments /\ NoAnalysis /\ NoFrontend
NextSegments == ExtractSegment \/ BuildSegmentDatabase
SpecSegments == InitSegments /\ [][NextSegments]_vars

(***************************************************************************)
(* analyzeRoutePattern (project summary document)                          *)
(*                                                                         *)
(* Key points are <<x, y>> in metres on the local plane.                   *)
(***************************************************************************)

\* inbound = keyPoints.slice(midPoint).reverse()
Reverse(s) == [i \in 1..Len(s) |-> s[Len(s) + 1 - i]]

\* the classification without the guard keyPoints.length >= 4
analyzeRoutePatternAnyLength(keyPoints) ==
  LET n == Len(keyPoints)
      midPoint == n \div 2
      outbound == SubSeq(keyPoints, 1, midPoint)
      inbound == Reverse(SubSeq(keyPoints, midPoint + 1, n))
      checkCount == Min2(Len(outbound), Len(inbound))
      similarPoints == Cardinality({i \in 1..checkCount :
                                      CloserThan(outbound[i], inbound[i], 1000)})
  IN  IF n < 3 THEN "unknown"
      ELSE IF CloserThan(keyPoints[1], keyPoints[n], 500) THEN "loop"
      ELSE IF 10 * similarPoints > 6 * checkCount THEN "out_back"
      ELSE "point_to_point"

analyzeRoutePattern(keyPoints) ==
  LET n == Len(keyPoints)
      midPoint == n \div 2
      outbound == SubSeq(keyPoints, 1, midPoint)
      inbound == Reverse(SubSeq(keyPoints, midPoint + 1, n))
      checkCount == Min2(Len(outbound), Len(inbound))
      similarPoints == Cardinality({i \in 1..checkCount :
                                      CloserThan(outbound[i], inbound[i], 1000)})
  IN  IF n < 3 THEN "unknown"
      ELSE IF CloserThan(keyPoints[1], keyPoints[n], 500) THEN "loop"
      ELSE IF n >= 4 /\ 10 * similarPoints > 6 * checkCount THEN "out_back"
      ELSE "point_to_point"

MaxKeyPoints == 5

KeyPointPool == { <<0, 0>>, <<400, 0>>, <<700, 0>>, <<5000, 0>>, <<5300, 300>>, <<6000, 6000>> }

\* findKeyPoints hands over one more key point
AddKeyPoint ==
  /\ Len(keyPointList) < MaxKeyPoints
  /\ \E p \in KeyPointPool : keyPointList' = Append(keyPointList, p)
  /\ routeShape' = "none"
  /\ UNCHANGED <<paramVars, loopVars, builderVars, uploadVars, genVars, patVars, segVars, trackVars, areaVars, statVars,
                 dirVars>>

\* pattern: analyzeRoutePattern(keyPoints)
AnalyzeRoutePattern ==
  /\ routeShape = "none"
  /\ routeShape' = analyzeRoutePattern(keyPointList)
  /\ UNCHANGED <<keyPointList, paramVars, loopVars, builderVars, uploadVars, genVars, patVars, segVars, trackVars,
                 areaVars, statVars, dirVars>>

InitShapes == NoRequest /\ NoProfiles /\ NoSegments /\ NoAnalysis /\ NoFrontend
NextShapes == AddKeyPoint \/ AnalyzeRoutePattern
SpecShapes == InitShapes /\ [][NextShapes]_vars

(***************************************************************************)
(* findFrequentAreas on the locations of a growing ride history            *)
(***************************************************************************)

MaxLocatedRides == 4

Location(lon, lat) == [lon |-> lon, lat |-> lat, type |-> "waypoint"]
ThreeVisits(lon, lat) == <<Location(lon, lat), Location(lon, lat), Location(lon, lat)>>

\* the locations one ride contributes: three visits of each of two places
\* (six places 0.1 degree apart), three visits of the first place, or two
\* points 0.008 degree apart next to the first place
LocationLists ==
  { ThreeVisits(0, 0) \o ThreeVisits(100, 0),
    ThreeVisits(0, 100) \o ThreeVisits(100, 100),
    ThreeVisits(200, 0) \o ThreeVisits(200, 100),
    ThreeVisits(0, 0),
    <<Location(8, 0), Location(16, 0)>> }

\* one more ride is in the history and the areas are computed anew
AnalyzeLocations ==
  /\ Len(sampleList) < MaxLocatedRides
  /\ \E locations \in LocationLists :
       /\ sampleList' = Append(sampleList, locations)
       /\ clustersOut' = GroupLocations(<<>>, Flat(Append(sampleList, locations)))
       /\ areasOut' = findFrequentAreas(Append(sampleList, locations))
  /\ UNCHANGED <<paramVars, loopVars, builderVars, uploadVars, genVars, patVars, segVars, shapeVars, trackVars, statVars,
                 dirVars>>

InitAreas == NoRequest /\ NoProfiles /\ NoSegments /\ NoAnalysis /\ NoFrontend
NextAreas == AnalyzeLocations
SpecAreas == InitAreas /\ [][NextAreas]_vars

(***************************************************************************)
(* analyzeDistanceDistribution on the distances of a growing ride history  *)
(***************************************************************************)

MaxDistances == 5

\* 15 km is the first value of 'medium'; 200 km is in no range
DistancePool == { 5 * KM, 15 * KM, 40 * KM, 90 * KM, 200 * KM }

\* one more ride distance is in the history and the profile is computed anew
AnalyzeDistances ==
  /\ Len(distanceList) < MaxDistances
  /\ \E d \in DistancePool :
       /\ distanceList' = Append(distanceList, d)
       /\ distributionOut' = <<analyzeDistanceDistribution(Append(distanceList, d))>>
  /\ UNCHANGED <<paramVars, loopVars, builderVars, uploadVars, genVars, patVars, segVars, shapeVars, trackVars, areaVars,
                 dirVars>>

InitDistances == NoRequest /\ NoProfiles /\ NoSegments /\ NoAnalysis /\ NoFrontend
NextDistances == AnalyzeDistances
SpecDistances == InitDistances /\ [][NextDistances]_vars

(***************************************************************************)
(* analyzePreferredDirections on the leg bearings of a growing history     *)
(***************************************************************************)

MaxBearingRides == 4

\* the bearings calculateBearing gave for the legs of one ride, in degrees
LegBearingLists ==
  { <<270, 270, 270, 270, 270>>,
    <<0>>,
    <<22, 23, 338, 337>>,
    <<90, 180, 135, 45>>,
    <<360, 359, 270, 91>> }

\* one more ride's leg bearings are collected and the preferences computed anew
AnalyzeDirections ==
  /\ Len(bearingList) < MaxBearingRides
  /\ \E bearings \in LegBearingLists :
       /\ bearingList' = Append(bearingList, bearings)
       /\ preferencesOut' = preferencesOfDirections(Flat(Append(bearingList, bearings)))
  /\ UNCHANGED <<paramVars, loopVars, builderVars, uploadVars, genVars, patVars, segVars, shapeVars, trackVars, areaVars,
                 statVars>>

InitDirections == NoRequest /\ NoProfiles /\ NoSegments /\ NoAnalysis /\ NoFrontend
NextDirections == AnalyzeDirections
SpecDirections == InitDirections /\ [][NextDirections]_vars

(***************************************************************************)
(* buildRouteFromSegments on the database of a growing set of segments     *)
(* The requested start is the origin of the plane.                         *)
(***************************************************************************)

\* the squared distance in metres between two points of the plane
SquaredMetres(p, q) == (p[1] - q[1]) * (p[1] - q[1]) + (p[2] - q[2]) * (p[2] - q[2])

\* Math.min(distanceToStart, distanceToEnd), squared
MinSquared(startLocation, segment) ==
  Min2(SquaredMetres(startLocation, segment.startPoint),
       SquaredMetres(startLocation, segment.endPoint))

\* the filter of buildRouteFromSegments: Math.min(...) < 5 km
WithinFiveKm(startLocation, segment) == MinSquared(startLocation, segment) < 5000 * 5000

AnyCoordinateCount(route) == TRUE

\* route.coordinates.length > 10
MoreThanTenCoordinates(route) == route.coordinates.list.n > 10

\* segment.distance <= targetDistance * 1.5
ShortEnough(segment, wantedDistance) == 2 * segment.distance <= 3 * wantedDistance

\* the for loop of chainSegments from the i-th segment on; best is 0 (none
\* yet, bestDistance Infinity) or the index of bestSegment
RECURSIVE BestSegmentFrom(_, _, _, _, _)
BestSegmentFrom(segments, startLocation, wantedDistance, i, best) ==
  IF i > Len(segments) THEN best
  ELSE BestSegmentFrom(segments, startLocation, wantedDistance, i + 1,
         IF /\ best = 0 \/ MinSquared(startLocation, segments[i])
                           < MinSquared(startLocation, segments[best])
            /\ ShortEnough(segments[i], wantedDistance)
         THEN i ELSE best)

\* <<>> is null; a coordinate list is held as the list it is taken from and
\* whether it is reversed
chainSegments(segments, startLocation, wantedDistance) ==
  LET best == BestSegmentFrom(segments, startLocation, wantedDistance, 1, 0)
  IN  IF best = 0 THEN <<>>
      ELSE << [coordinates |->
                 [list |-> segments[best].coordinates,
                  reversed |-> SquaredMetres(startLocation, segments[best].endPoint)
                               < SquaredMetres(startLocation, segments[best].startPoint)],
               distance |-> segments[best].distance,
               elevationGain |-> 0,
               elevationLoss |-> 0] >>

buildRouteFromSegments(startLocation, wantedDistance, goal, routeSegments) ==
  LET Nearby(segment) == WithinFiveKm(startLocation, segment)
      nearbySegments == SelectSeq(routeSegments, Nearby)
      route == chainSegments(nearbySegments, startLocation, wantedDistance)
  IN  IF Len(routeSegments) = 0 \/ Len(nearbySegments) = 0 THEN <<>>
      ELSE IF route # <<>> /\ MoreThanTenCoordinates(route[1])
      THEN << [name |-> "Route from Your Rides",
               coordinates |-> route[1].coordinates,
               distance |-> route[1].distance,
               elevationGain |-> route[1].elevationGain,
               difficulty |-> calculateDifficulty(route[1].distance,
                                                  route[1].elevationGain * KM),
               trainingGoal |-> goal,
               pattern |-> "historical",
               confidence |-> 95,
               source |-> "segments"] >>
      ELSE <<>>

MaxRouteSegments == 3

\* a segment of a ride: end points, length in km, time, number of coordinates
RiddenSegment(id, start, end, km, ts, n) ==
  [startPoint |-> start, endPoint |-> end, bearing |-> 90, distance |-> km * KM,
   rideId |-> id, timestamp |-> ts, coordinates |-> [of |-> id, n |-> n]]

RiddenSegments ==
  { RiddenSegment(1, <<1000, 0>>, <<3000, 0>>, 2, 1, 12),
    RiddenSegment(2, <<3000, 0>>, <<1000, 0>>, 2, 2, 15),
    RiddenSegment(3, <<500, 0>>, <<2500, 0>>, 2, 3, 6),
    RiddenSegment(4, <<9000, 0>>, <<11000, 0>>, 2, 4, 12),
    RiddenSegment(5, <<200, 0>>, <<40000, 0>>, 40, 1, 20) }

SegmentTargets == { 20 * KM, 30 * KM }

\* one more segment is in the database and a route is asked for
BuildRouteFromSegments ==
  /\ Len(allSegments) < MaxRouteSegments
  /\ \E seg \in RiddenSegments : \E target \in SegmentTargets :
       /\ allSegments' = Append(allSegments, seg)
       /\ segmentDatabase' = buildSegmentDatabase(Append(allSegments, seg))
       /\ segmentTarget' = target
       /\ segmentRoute' = buildRouteFromSegments(<<0, 0>>, target, "endurance",
                            buildSegmentDatabase(Append(allSegments, seg)))
  /\ UNCHANGED <<paramVars, loopVars, builderVars, uploadVars, genVars, patVars, analysisVars>>

InitSegmentRoute == NoRequest /\ NoProfiles /\ NoSegments /\ NoAnalysis /\ NoFrontend
NextSegmentRoute == BuildRouteFromSegments
SpecSegmentRoute == InitSegmentRoute /\ [][NextSegmentRoute]_vars

(***************************************************************************)
(* extractRouteSegments on the track of a ride                             *)
(***************************************************************************)

\* calculateDistance(prev, curr) * 1000 for two points on one parallel or one
\* meridian near the equator: 111 m for each 0.001 degree
MetresBetween(prev, curr) == 111 * (Abs(curr.lon - prev.lon) + Abs(curr.lat - prev.lat))

AnyLength(currentSegment) == TRUE

\* currentSegment.length >= 5
EnoughPoints(currentSegment) == Len(currentSegment) >= 5

\* the object pushed for a closed chunk; distance is held in metres
ChunkSegment(ride, currentSegment, segmentDistance_m) ==
  [coordinates |-> currentSegment,
   startPoint |-> currentSegment[1],
   endPoint |-> currentSegment[Len(currentSegment)],
   distance |-> segmentDistance_m,
   bearing |-> calculateBearing(currentSegment[1], currentSegment[Len(currentSegment)]),
   rideId |-> ride.id,
   timestamp |-> ride.uploaded_at]

\* the for loop from index i (1-based) with the chunk and distance so far
RECURSIVE ChunkLoop(_, _, _, _)
ChunkLoop(ride, i, currentSegment, segmentDistance_m) ==
  IF i > Len(ride.track_points) THEN <<>>
  ELSE LET curr == ride.track_points[i]
           travelled == segmentDistance_m + MetresBetween(ride.track_points[i - 1], curr)
           chunk == Append(currentSegment, curr)
       IN  IF travelled >= 2 * 1000 \/ i = Len(ride.track_points)
           THEN (IF EnoughPoints(chunk) THEN <<ChunkSegment(ride, chunk, travelled)>>
                 ELSE <<>>)
                \o ChunkLoop(ride, i + 1, <<curr>>, 0)
           ELSE ChunkLoop(ride, i + 1, chunk, travelled)

extractRouteSegments(ride) ==
  IF Len(ride.track_points) < 10 THEN <<>>
  ELSE ChunkLoop(ride, 2, <<ride.track_points[1]>>, 0)

MaxRidePoints == 11

\* the ride whose track is recorded
RecordedRide(track) == [id |-> 1, uploaded_at |-> 1, track_points |-> track]

\* the way east from one track point to the next, in units of 0.001 degree
\* (222 m, 555 m, 777 m)
EastSteps == { <<2, 0>>, <<5, 0>>, <<7, 0>> }

\* the track has one more point and the ride is cut into segments anew
ExtractRouteSegments ==
  /\ Len(trackList) < MaxRidePoints
  /\ \E step \in EastSteps :
       LET track == Append(trackList,
                           IF trackList = <<>> THEN [lon |-> 0, lat |-> 0]
                           ELSE [lon |-> trackList[Len(trackList)].lon + step[1],
                                 lat |-> trackList[Len(trackList)].lat + step[2]])
       IN  /\ trackList' = track
           /\ segmentsOut' = extractRouteSegments(RecordedRide(track))
  /\ UNCHANGED keyPointsOut
  /\ UNCHANGED <<paramVars, loopVars, builderVars, uploadVars, genVars, patVars, segVars, shapeVars, areaVars, statVars,
                 dirVars>>

InitChunks == NoRequest /\ NoProfiles /\ NoSegments /\ NoAnalysis /\ NoFrontend
NextChunks == ExtractRouteSegments
SpecChunks == InitChunks /\ [][NextChunks]_vars

(***************************************************************************)
(* findKeyPoints on a track that grows point by point                      *)
(***************************************************************************)

MaxTrackPoints == 5

TrackPoint(lon, lat) == [lon |-> lon, lat |-> lat]

\* the step from one track point to the next, in units of 0.001 degree:
\* north, east, north-east, north by east, south, north-west
TrackSteps == { <<0, 1>>, <<1, 0>>, <<1, 1>>, <<1, 2>>, <<0, 0 - 1>>, <<0 - 1, 1>> }

NextTrackPoint(track, step) ==
  IF track = <<>> THEN TrackPoint(0, 0)
  ELSE TrackPoint(track[Len(track)].lon + step[1], track[Len(track)].lat + step[2])

\* the track has one more point and its key points are found anew
FindKeyPoints ==
  /\ Len(trackList) < MaxTrackPoints
  /\ \E step \in TrackSteps :
       /\ trackList' = Append(trackList, NextTrackPoint(trackList, step))
       /\ keyPointsOut' = findKeyPoints(Append(trackList, NextTrackPoint(trackList, step)))
  /\ UNCHANGED segmentsOut
  /\ UNCHANGED <<paramVars, loopVars, builderVars, uploadVars, genVars, patVars, segVars, shapeVars, areaVars, statVars,
                 dirVars>>

InitKeyPoints == NoRequest /\ NoProfiles /\ NoSegments /\ NoAnalysis /\ NoFrontend
NextKeyPoints == FindKeyPoints
SpecKeyPoints == InitKeyPoints /\ [][NextKeyPoints]_vars

(***************************************************************************)
(* The waypoints of generateLoopPattern                                    *)
(*                                                                         *)
(* Math.random() is a draw the caller cannot see: each of the 4 points has *)
(* a radius factor 0.7 + random * 0.6 (hundredths) and an angle jitter     *)
(* (random - 0.5) * 0.5 radian, taken at the ends and the middle of their  *)
(* ranges.  Offsets are in units of 0.001 degree at the equator.           *)
(***************************************************************************)

\* radius = targetDistance / (2 pi) * 0.9 km, in thousandths of a location unit
LoopRadiusMilli(wantedDistance) == (wantedDistance * 9153) \div 852

\* cos and sin, in thousandths, of a jitter of -0.25, 0 or 0.25 radian
CosJitter(jitter) == IF jitter = 0 THEN 1000 ELSE 969
SinJitter(jitter) == jitter * 247

\* cos and sin, in thousandths, of (pattern.bearing + i * 90) degrees + jitter
CosAngle(bearing, i, jitter) ==
  LET quarter == ((bearing + i * 90) \div 90) % 4
  IN  CASE quarter = 0 -> CosJitter(jitter)
        [] quarter = 1 -> 0 - SinJitter(jitter)
        [] quarter = 2 -> 0 - CosJitter(jitter)
        [] quarter = 3 -> SinJitter(jitter)
SinAngle(bearing, i, jitter) ==
  LET quarter == ((bearing + i * 90) \div 90) % 4
  IN  CASE quarter = 0 -> SinJitter(jitter)
        [] quarter = 1 -> CosJitter(jitter)
        [] quarter = 2 -> 0 - SinJitter(jitter)
        [] quarter = 3 -> 0 - CosJitter(jitter)

\* a point as a centre is held: sums and count
PointAt(lon, lat) == [lon |-> lon, lat |-> lat, n |-> 1]

\* targetPoint = [startLon + deltaLon, startLat + deltaLat], deltaLat from
\* radiusVariation * cos(angleVariation), deltaLon from radiusVariation *
\* sin(angleVariation); rounded to the location unit
GeometricPoint(startLocation, wantedDistance, pattern, i, draw) ==
  LET radiusVariation == (LoopRadiusMilli(wantedDistance) * draw.factor) \div 100
      deltaLat == (radiusVariation * CosAngle(pattern.bearing, i, draw.jitter)) \div 1000
      deltaLon == (radiusVariation * SinAngle(pattern.bearing, i, draw.jitter)) \div 1000
  IN  PointAt(startLocation.lon + RoundDiv(deltaLon, 1000),
              startLocation.lat + RoundDiv(deltaLat, 1000))

\* the body of the loop over i = 1..numPoints
TargetPoint(startLocation, wantedDistance, pattern, nearbyAreas, i, draw) ==
  IF AreaUsed(nearbyAreas, i, startLocation, wantedDistance)
  THEN [from |-> "area", point |-> nearbyAreas[i].center]
  ELSE [from |-> "geometry",
        point |-> GeometricPoint(startLocation, wantedDistance, pattern, i, draw)]

\* waypoints = [startLocation]; 4 pushes; waypoints.push(startLocation)
generateLoopWaypoints(startLocation, wantedDistance, pattern, nearbyAreas, draws) ==
  LET start == [from |-> "start", point |-> PointAt(startLocation.lon, startLocation.lat)]
  IN  <<start>>
      \o [i \in 1..4 |->
            TargetPoint(startLocation, wantedDistance, pattern, nearbyAreas, i, draws[i])]
      \o <<start>>

MaxNearbyAreas == 3

\* centres of frequent areas less than 20 km from the start: 4.4 km west (the
\* mean of two samples), 3.3 km east, 15 km north, 5.8 km south
AreaCenters ==
  { [lon |-> 0 - 80, lat |-> 0, n |-> 2], [lon |-> 30, lat |-> 0, n |-> 1],
    [lon |-> 0, lat |-> 135, n |-> 1],    [lon |-> 0, lat |-> 0 - 52, n |-> 1] }
FrequentArea(center) == [center |-> center, frequency |-> 3]

\* lists of distinct nearby areas
NearbyLists ==
  {l \in UNION {[1..k -> AreaCenters] : k \in 0..MaxNearbyAreas} :
     \A i, j \in DOMAIN l : i # j => l[i] # l[j]}

Draws == { [factor |-> 70, jitter |-> 0 - 1], [factor |-> 100, jitter |-> 0],
           [factor |-> 129, jitter |-> 1] }
LoopTargets == {20 * KM, 60 * KM}

\* one call of generateLoopPattern up to its waypoints
GenerateLoopWaypoints ==
  /\ loopRequest = <<>>
  /\ \E target \in LoopTargets : \E k \in DOMAIN LoopPatterns :
     \E centers \in NearbyLists : \E draws \in [1..4 -> Draws] :
       LET nearbyAreas == [i \in DOMAIN centers |-> FrequentArea(centers[i])]
       IN  /\ loopRequest' = <<[targetDistance |-> target, pattern |-> LoopPatterns[k],
                               nearbyAreas |-> nearbyAreas]>>
           /\ loopWaypoints' = generateLoopWaypoints(StartLocation, target,
                                 LoopPatterns[k], nearbyAreas, draws)
  /\ UNCHANGED <<paramVars, genVars, patVars, segVars, analysisVars, builderVars, uploadVars>>

InitWaypoints == NoRequest /\ NoProfiles /\ NoSegments /\ NoAnalysis /\ NoFrontend
NextWaypoints == GenerateLoopWaypoints
SpecWaypoints == InitWaypoints /\ [][NextWaypoints]_vars

(***************************************************************************)
(* RouteBuilder: the effect that snaps the waypoints (snapAndElevate)      *)
(*                                                                         *)
(* points is the number of waypoints; edits counts the changes of points   *)
(* or useSnap and so names the values the effect depends on.  A state      *)
(* change is rendered first and its effect (the clean-up of the previous   *)
(* effect, then snapAndElevate) runs afterwards; pending effects run       *)
(* before the next render.  A result field holds the edit its value was    *)
(* computed for.  mapMatchRoute and fetchElevationProfile catch their own  *)
(* failures and always resolve, so the catch branch is never entered.      *)
(***************************************************************************)

MaxEdits == 4
MaxWaypoints == 3

\* cancelled is tested nowhere
NeverCancelled(request) == FALSE

\* the cancelled flag of the effect run that started the request
Cancelled(request) == request.cancelled

\* what a write leaves for the observer: the request, the edit it was started
\* for, the edit current at the write, and whether an effect was still to run
Written(by) ==
  <<[by |-> by, forEdit |-> requests[by].forEdit, atEdit |-> edits,
     pending |-> effectPending]>>

\* addPoint, undo, clearAll, reverseRoute, removePoint or a drag: setPoints
EditPoints ==
  /\ ~effectPending
  /\ edits < MaxEdits
  /\ \E n \in {points - 1, points, points + 1} \cap 0..MaxWaypoints :
       /\ n = points => points >= 1
       /\ points' = n
  /\ edits' = edits + 1
  /\ effectPending' = TRUE
  /\ UNCHANGED <<useSnap, snapToken, requests, snapVars>>
  /\ UNCHANGED <<paramVars, loopVars, genVars, patVars, segVars, analysisVars, uploadVars>>

\* the snap switch: setUseSnap(e.currentTarget.checked)
ToggleSnap ==
  /\ ~effectPending
  /\ edits < MaxEdits
  /\ useSnap' = ~useSnap
  /\ edits' = edits + 1
  /\ effectPending' = TRUE
  /\ UNCHANGED <<points, snapToken, requests, snapVars>>
  /\ UNCHANGED <<paramVars, loopVars, genVars, patVars, segVars, analysisVars, uploadVars>>

\* the clean-up of the previous effect (cancelled = true), then snapAndElevate
\* up to its first await
RunEffect ==
  /\ effectPending
  /\ effectPending' = FALSE
  /\ LET cleaned == [r \in DOMAIN requests |-> [requests[r] EXCEPT !.cancelled = TRUE]]
     IN  IF ~useSnap \/ points < 2 \/ ~snapToken
         THEN /\ requests' = cleaned
              /\ snappedCoords' = 0
              /\ routeMetadata' = 0
              /\ elevationProfile' = 0
              /\ elevationStats' = 0
              /\ snapping' = FALSE
              /\ UNCHANGED <<snapProgress, lastWrite>>
         ELSE /\ requests' = Append(cleaned, [forEdit |-> edits, cancelled |-> FALSE,
                                              at |-> "match", endedAt |-> 0])
              /\ snapping' = TRUE
              /\ snapProgress' = 10
              /\ UNCHANGED <<snappedCoords, routeMetadata, elevationProfile,
                             elevationStats, lastWrite>>
  /\ UNCHANGED <<points, useSnap, snapToken, edits>>
  /\ UNCHANGED <<paramVars, loopVars, genVars, patVars, segVars, analysisVars, uploadVars>>

\* mapMatchRoute resolves (its result always has coordinates): the snapped
\* route is stored and the elevation asked for, or the request ends
MatchReturns ==
  \E r \in DOMAIN requests :
    /\ requests[r].at = "match"
    /\ IF ~Cancelled(requests[r])
       THEN /\ snappedCoords' = requests[r].forEdit
            /\ routeMetadata' = requests[r].forEdit
            /\ snapProgress' = 80
            /\ requests' = [requests EXCEPT ![r].at = "elevation"]
            /\ lastWrite' = Written(r)
            /\ UNCHANGED <<snapping, elevationProfile, elevationStats>>
       ELSE /\ snapProgress' = 60
            /\ requests' = [requests EXCEPT ![r].at = "ended", ![r].endedAt = edits]
            /\ UNCHANGED <<snapping, snappedCoords, routeMetadata, elevationProfile,
                           elevationStats, lastWrite>>
    /\ UNCHANGED <<points, useSnap, snapToken, edits, effectPending>>
    /\ UNCHANGED <<paramVars, loopVars, genVars, patVars, segVars, analysisVars, uploadVars>>

\* fetchElevationProfile resolves: profile and statistics are stored and, in
\* the finally block, the snapping flag is cleared
ElevationReturns ==
  \E r \in DOMAIN requests :
    /\ requests[r].at = "elevation"
    /\ requests' = [requests EXCEPT ![r].at = "ended", ![r].endedAt = edits]
    /\ IF ~Cancelled(requests[r])
       THEN /\ elevationProfile' = requests[r].forEdit
            /\ elevationStats' = requests[r].forEdit
            /\ snapProgress' = 100
            /\ snapping' = FALSE
            /\ lastWrite' = Written(r)
            /\ UNCHANGED <<snappedCoords, routeMetadata>>
       ELSE UNCHANGED snapVars
    /\ UNCHANGED <<points, useSnap, snapToken, edits, effectPending>>
    /\ UNCHANGED <<paramVars, loopVars, genVars, patVars, segVars, analysisVars, uploadVars>>

\* RouteBuilder is mounted, with or without REACT_APP_MAPBOX_TOKEN in the build
MountBuilder == RouteBuilderState /\ snapToken \in BOOLEAN /\ effectPending = TRUE

InitBuilder == NoRequest /\ NoProfiles /\ NoSegments /\ NoAnalysis /\ MountBuilder /\ NoUpload
NextBuilder == EditPoints \/ ToggleSnap \/ RunEffect \/ MatchReturns \/ ElevationReturns
SpecBuilder == InitBuilder /\ [][NextBuilder]_vars

(***************************************************************************)
(* FileUpload: the batch save of processed GPX files                       *)
(*                                                                         *)
(* A file is named by its id (name, size, lastModified).  The save button  *)
(* shows a loader while saving and is disabled without a user or without a *)
(* selection; the check box of a file is shown for parsed files only.  The *)
(* rider's own removals and selections are taken between saves.  reading   *)
(* holds the files whose readFileAsText is in flight.                      *)
(***************************************************************************)

MaxFiles == 2
FileIds == 1..MaxFiles

Elements(list) == {list[i] : i \in DOMAIN list}
Without(list, id) == SelectSeq(list, LAMBDA x : x # id)
\* new Map([...prev, [fileId, value]]) and newMap.delete(fileId)
MapSet(map, id, value) == [k \in DOMAIN map \cup {id} |-> IF k = id THEN value ELSE map[k]]
MapDelete(map, id) == [k \in DOMAIN map \ {id} |-> map[k]]

\* handleFileSelect for one new file, and processFile up to its await
AddFile ==
  /\ \E id \in FileIds \ selectedFiles :
       /\ selectedFiles' = selectedFiles \cup {id}
       /\ processingFiles' = processingFiles \cup {id}
       /\ reading' = reading \cup {id}
  /\ globalError' = <<>>
  /\ UNCHANGED <<user, processedFiles, selectedForSave, saving, savingProgress, saveRun,
                 insertLog>>
  /\ UNCHANGED <<paramVars, loopVars, genVars, patVars, segVars, analysisVars, builderVars>>

\* processFile after the file is read: parsed (and selected for saving) or not
FileProcessed ==
  /\ \E id \in reading : \E parsed \in BOOLEAN :
       /\ processedFiles' = MapSet(processedFiles, id, IF parsed THEN "data" ELSE "error")
       /\ selectedForSave' = IF parsed /\ id \notin Elements(selectedForSave)
                             THEN Append(selectedForSave, id) ELSE selectedForSave
       /\ processingFiles' = processingFiles \ {id}
       /\ reading' = reading \ {id}
  /\ UNCHANGED <<user, selectedFiles, saving, savingProgress, globalError, saveRun, insertLog>>
  /\ UNCHANGED <<paramVars, loopVars, genVars, patVars, segVars, analysisVars, builderVars>>

\* removeFile(fileId): the three functional updates
removeFile(files, id) ==
  [selectedFiles |-> files.selectedFiles \ {id},
   processedFiles |-> MapDelete(files.processedFiles, id),
   selectedForSave |-> Without(files.selectedForSave, id)]

\* savedFileIds.forEach(fileId => removeFile(fileId))
RECURSIVE RemoveEach(_, _)
RemoveEach(files, ids) ==
  IF ids = <<>> THEN files ELSE RemoveEach(removeFile(files, Head(ids)), Tail(ids))

CurrentFiles ==
  [selectedFiles |-> selectedFiles, processedFiles |-> processedFiles,
   selectedForSave |-> selectedForSave]

\* the remove button of a processed file
RemoveFile ==
  /\ saveRun = <<>>
  /\ \E id \in DOMAIN processedFiles :
       LET files == removeFile(CurrentFiles, id)
       IN  /\ selectedFiles' = files.selectedFiles
           /\ processedFiles' = files.processedFiles
           /\ selectedForSave' = files.selectedForSave
  /\ UNCHANGED <<user, processingFiles, saving, savingProgress, globalError, saveRun,
                 insertLog, reading>>
  /\ UNCHANGED <<paramVars, loopVars, genVars, patVars, segVars, analysisVars, builderVars>>

\* the check box of a parsed file
ToggleFileSelection ==
  /\ saveRun = <<>>
  /\ \E id \in DOMAIN processedFiles :
       /\ processedFiles[id] = "data"
       /\ selectedForSave' = IF id \in Elements(selectedForSave)
                             THEN Without(selectedForSave, id)
                             ELSE Append(selectedForSave, id)
  /\ UNCHANGED <<user, selectedFiles, processingFiles, processedFiles, saving,
                 savingProgress, globalError, saveRun, insertLog, reading>>
  /\ UNCHANGED <<paramVars, loopVars, genVars, patVars, segVars, analysisVars, builderVars>>

\* saveSelectedToDatabase up to the insert of the first file; the loop runs
\* over the selectedForSave and processedFiles of this render
SaveSelectedToDatabase ==
  /\ saveRun = <<>>
  /\ user
  /\ selectedForSave # <<>>
  /\ saving' = TRUE
  /\ savingProgress' = [current |-> 1, total |-> Len(selectedForSave)]
  /\ saveRun' = <<[order |-> selectedForSave, currentIndex |-> 1, savedFileIds |-> <<>>,
                   successCount |-> 0, failCount |-> 0]>>
  /\ insertLog' = <<>>
  /\ UNCHANGED <<user, fileVars, globalError, reading>>
  /\ UNCHANGED <<paramVars, loopVars, genVars, patVars, segVars, analysisVars, builderVars>>

\* an exception of an insert leaves the for loop
ThrowEscapes(outcome) == outcome = "threw"

\* the inner try / catch: no exception of an insert leaves the for loop
EscapesLoop(outcome) == FALSE

InsertOutcomes == {"succeeded", "failed", "threw"}

\* the insert of the current file resolves without error, resolves with
\* { error } or rejects; the loop goes on to the next insert or, after the
\* last file, to the removals, the summary and the finally block
InsertReturns ==
  /\ saveRun # <<>>
  /\ \E outcome \in InsertOutcomes :
       LET run == saveRun[1]
           fileId == run.order[run.currentIndex]
           saved == IF outcome = "succeeded" THEN Append(run.savedFileIds, fileId)
                    ELSE run.savedFileIds
           failCount == IF outcome = "succeeded" THEN run.failCount ELSE run.failCount + 1
           files == RemoveEach(CurrentFiles, saved)
       IN  /\ insertLog' = MapSet(insertLog, fileId, outcome)
           /\ IF EscapesLoop(outcome)
              THEN /\ globalError' = <<"Failed to save routes">>
                   /\ saving' = FALSE
                   /\ savingProgress' = [current |-> 0, total |-> 0]
                   /\ saveRun' = <<>>
                   /\ UNCHANGED fileVars
              ELSE IF run.currentIndex < Len(run.order)
              THEN /\ saveRun' = <<[run EXCEPT !.currentIndex = @ + 1,
                                               !.savedFileIds = saved,
                                               !.successCount = Len(saved),
                                               !.failCount = failCount]>>
                   /\ savingProgress' = [savingProgress EXCEPT !.current = run.currentIndex + 1]
                   /\ UNCHANGED <<fileVars, saving, globalError>>
              ELSE /\ selectedFiles' = files.selectedFiles
                   /\ processedFiles' = files.processedFiles
                   /\ selectedForSave' = files.selectedForSave
                   /\ globalError' = IF failCount > 0 THEN <<failCount>> ELSE globalError
                   /\ saving' = FALSE
                   /\ savingProgress' = [current |-> 0, total |-> 0]
                   /\ saveRun' = <<>>
                   /\ UNCHANGED processingFiles
  /\ UNCHANGED <<user, reading>>
  /\ UNCHANGED <<paramVars, loopVars, genVars, patVars, segVars, analysisVars, builderVars>>

\* the Clear All button, shown while files are listed; a file still being
\* read is processed afterwards all the same
ClearAll ==
  /\ saveRun = <<>>
  /\ selectedFiles # {}
  /\ selectedFiles' = {}
  /\ processedFiles' = <<>>
  /\ processingFiles' = {}
  /\ selectedForSave' = <<>>
  /\ globalError' = <<>>
  /\ UNCHANGED <<user, saving, savingProgress, saveRun, insertLog, reading>>
  /\ UNCHANGED <<paramVars, loopVars, genVars, patVars, segVars, analysisVars, builderVars>>

\* FileUpload is mounted, with or without a signed-in user
MountUpload == FileUploadState /\ user \in BOOLEAN

InitUpload == NoRequest /\ NoProfiles /\ NoSegments /\ NoAnalysis /\ NoBuilder /\ MountUpload
NextUpload ==
  \/ AddFile \/ FileProcessed \/ RemoveFile \/ ToggleFileSelection \/ ClearAll
  \/ SaveSelectedToDatabase \/ InsertReturns
SpecUpload == InitUpload /\ [][NextUpload]_vars

(***************************************************************************)
(* Properties of route generation                                          *)
(***************************************************************************)

IsMockFallback(route) ==
  /\ route.pattern = "mock"
  /\ route.distance = targetDistance
  /\ route.coordinates = generateMockCoordinates(StartLocation, targetDistance)

BothCallsFailed(i) ==
  callLog[i].directions = "failed" /\ callLog[i].matching = "failed"

\* C1: a loop candidate whose directions call and map-matching call both failed
\* is the mock fallback (pattern 'mock', the target distance, the octagon built
\* from the start), and the batch still yields a candidate for every pattern.
C1_BothFailedGivesMock ==
  /\ \A i \in DOMAIN routes :
       (routeType = "loop" /\ i \in DOMAIN callLog /\ BothCallsFailed(i))
         => IsMockFallback(routes[i])
  /\ (routeType = "loop" /\ pc \in {"score", "done"}) => Len(routes) = Len(LoopPatterns)

\* C2: generateAIRoutes never rejects, whatever the collaborators do, and
\* without weather data the weather adds nothing to any score: the wind factor
\* is the neutral 0.8 and the sum has no weather term.
C2_NeverRejects ==
  /\ pc # "rejected"
  /\ (pc = "done" /\ weatherData = <<>>) =>
       \A i \in DOMAIN routes :
         /\ routes[i].windFactor = 80
         /\ RawScore(routes[i], trainingGoal, weatherData, timeAvailable, ridingPatterns)
              = ONE \div 2
                + getTrainingGoalScore(routes[i], trainingGoal)
                + getTimeEfficiencyScore(routes[i], timeAvailable)
                + (IF routes[i].confidence > 80 THEN ONE \div 10 ELSE 0)
                + (IF ridingPatterns # <<>>
                   THEN getHistoricalPatternScore(routes[i], ridingPatterns[1]) ELSE 0)

\* C3: every route scoreRoutes returns has a score in [0, 1].
C3_ScoreClamped ==
  pc = "done" => \A i \in DOMAIN result : result[i].score >= 0 /\ result[i].score <= ONE

\* a returned mock route whose preset 0.6 was replaced and whose sub-scores sum
\* to more than 1
C3_Witness ==
  /\ pc = "done"
  /\ \E i \in DOMAIN routes :
       /\ routes[i].pattern = "mock"
       /\ routes[i].score = (6 * ONE) \div 10
       /\ RawScore(routes[i], trainingGoal, weatherData, timeAvailable, ridingPatterns) > ONE
       /\ \E j \in DOMAIN result : result[j].name = routes[i].name /\ result[j].score = ONE

\* the scored candidates, in generation order
ScoredCandidates ==
  [i \in DOMAIN routes |->
     ScoreRoute(routes[i], trainingGoal, weatherData, timeAvailable, ridingPatterns)]

\* C4: the returned list has at most 4 routes, is sorted by score in
\* non-increasing order, and no candidate left out of it scores higher than a
\* returned one.
C4_TopFourSorted ==
  pc = "done" =>
    /\ Len(result) <= 4
    /\ \A i \in DOMAIN result : \A j \in DOMAIN result :
         i < j => result[i].score >= result[j].score
    /\ \A i \in DOMAIN routes :
         \/ \E j \in DOMAIN result : result[j] = ScoredCandidates[i]
         \/ \A j \in DOMAIN result : result[j].score >= ScoredCandidates[i].score

\* four returned routes that the sort had to reorder
C4_Witness ==
  /\ pc = "done"
  /\ Len(result) = 4
  /\ result[1].score > result[4].score
  /\ result # ScoredCandidates

\* C5: when a collaborator call of one candidate never completes, a timeout
\* degrades that candidate to its mock fallback and generateAIRoutes still
\* returns; so a request with such a call is never at a stop: a step (the
\* timeout and the continuation it resumes) can be taken.
C5_HungCallStillReturns == hung => ENABLED Next

\* the name generation gives the i-th candidate
GeneratedName(i) ==
  IF routeType = "loop" THEN PrioritizedPatterns(patternBasedSuggestions)[i].name
  ELSE OutAndBackDirections[i].name

\* C6: the candidates handed to scoreRoutes are in generation order, and at
\* most one candidate has a call in flight.
C6_GenerationOrder ==
  /\ \A i \in DOMAIN routes : routes[i].name = GeneratedName(i)
  /\ awaiting # "none" => Len(callLog) = Len(routes) + 1

\* a loop batch whose candidates ended differently, about to be scored
C6_Witness ==
  /\ pc = "score"
  /\ routeType = "loop"
  /\ patternBasedSuggestions # <<>>
  /\ patternBasedSuggestions[1].preferredDirection.source = "historical"
  /\ routes[1].name = "West Loop"
  /\ Len(routes) = 4
  /\ callLog[1].directions = "failed"
  /\ callLog[2].directions = "answered"
  /\ routes[3].pattern = "mock"

\* C7: when the ride history store returns an error or throws, fetchPastRides
\* yields an empty list and the request goes on; the failure never reaches the
\* caller of generateAIRoutes.
C7_StoreFailureContained ==
  storeOutcome \in {"error", "throw"} =>
    /\ ~fetchThrew
    /\ pastRides = <<>>
    /\ ridingPatterns = <<getDefaultPatterns>>
    /\ pc # "rejected"

\* the store threw and the request returned its four routes
C7_Witness ==
  /\ storeOutcome = "throw"
  /\ pc = "done"
  /\ Len(result) = 4

(***************************************************************************)
(* Properties of pattern analysis                                          *)
(***************************************************************************)

EmptyOrMissing(arg) == arg = <<>> \/ Len(arg[1]) = 0

\* C8: analyzeRidingPatterns with an empty or missing ride list returns the
\* documented default profile (mean 25 km, no frequent areas), also after any
\* earlier calls whose returned profiles the caller changed.
C8_DefaultProfileFresh ==
  (observed # <<>> /\ EmptyOrMissing(observed[1].arg)) =>
    /\ observed[1].value.preferredDistances.kind = "object"
    /\ observed[1].value.preferredDistances.mean = 25 * KM
    /\ observed[1].value.preferredDistances.min = 10 * KM
    /\ observed[1].value.preferredDistances.max = 50 * KM
    /\ observed[1].value.frequentAreas = <<>>
    /\ observed[1].value.elevationTolerance.preferred = 300

\* a default profile was returned, the caller changed it, and a second call
\* with an empty list has just returned
C8_Witness ==
  /\ Len(heap) = 2
  /\ heap[1].origin = "default"
  /\ heap[1].value.frequentAreas # <<>>
  /\ returned = 2
  /\ observed # <<>>
  /\ observed[1].arg = <<<<>>>>
  /\ heap[2].value.frequentAreas = <<>>

\* a summary value is valid when it is present and positive
PresentAndPositive(v) == v # <<>> /\ v[1] > 0

\* C10: with rides supplied of which none has a valid distance (resp. elevation
\* gain), preferredDistances (resp. elevationTolerance) is the documented
\* default sub-profile, and no non-positive value enters the statistics.
C10_FailSoftDefaults ==
  (observed # <<>> /\ ~EmptyOrMissing(observed[1].arg)) =>
    LET supplied == observed[1].arg[1]
        profile == observed[1].value
    IN  /\ (\A i \in DOMAIN supplied : ~PresentAndPositive(supplied[i].distance))
             => profile.preferredDistances = DefaultPreferredDistances
        /\ (\A i \in DOMAIN supplied : ~PresentAndPositive(supplied[i].elevation_gain))
             => profile.elevationTolerance = DefaultElevationTolerance
        /\ profile.elevationTolerance.hasTolerance => profile.elevationTolerance.min > 0

(***************************************************************************)
(* Properties of the segment database                                      *)
(***************************************************************************)

\* C9: two segments end in the same entry if and only if their starts are less
\* than 0.5 km apart, their ends are less than 0.5 km apart and their wrapped
\* bearing difference is below 30 degrees; then the entry has usageCount 2.
C9_MergeRule ==
  (Len(allSegments) = 2 /\ segmentDatabase # <<>>) =>
    LET a == allSegments[1]
        b == allSegments[2]
        near == /\ CloserThan(a.startPoint, b.startPoint, 500)
                /\ CloserThan(a.endPoint, b.endPoint, 500)
                /\ NormalizedBearingDiff(a.bearing, b.bearing) < 30
    IN  /\ near <=> Len(segmentDatabase) = 1
        /\ near => segmentDatabase[1].usageCount = 2

(***************************************************************************)
(* Properties of the route-shape classification                            *)
(***************************************************************************)

\* the pairs (i-th key point, i-th key point from the end) of the two halves
\* that are within 1 km of each other, and the number of pairs
MirroredPairs == 1..(Len(keyPointList) \div 2)
NearPairs ==
  {i \in MirroredPairs :
     CloserThan(keyPointList[i], keyPointList[Len(keyPointList) + 1 - i], 1000)}
EndsMeet == CloserThan(keyPointList[1], keyPointList[Len(keyPointList)], 500)
MostlyMirrored == 10 * Cardinality(NearPairs) > 6 * Cardinality(MirroredPairs)

\* C11 as stated: a list of 3 or more key points is 'loop' if its ends are less
\* than 0.5 km apart, otherwise 'out_back' if more than 60% of the mirrored
\* pairs are within 1 km, otherwise 'point_to_point'.
C11_ShapeRule ==
  (routeShape # "none" /\ Len(keyPointList) >= 3) =>
    routeShape = IF EndsMeet THEN "loop"
                 ELSE IF MostlyMirrored THEN "out_back"
                 ELSE "point_to_point"

\* C11 amended: the rule holds for lists of 4 or more key points; a list of
\* exactly 3 key points whose ends do not meet is 'point_to_point' whatever its
\* mirrored pair.
C11_ShapeRuleFromFour ==
  (routeShape # "none" /\ Len(keyPointList) >= 3) =>
    routeShape = IF EndsMeet THEN "loop"
                 ELSE IF Len(keyPointList) >= 4 /\ MostlyMirrored THEN "out_back"
                 ELSE "point_to_point"

\* three key points, the ends 700 m apart, classified
C11_Witness ==
  /\ Len(keyPointList) = 3
  /\ ~EndsMeet
  /\ MostlyMirrored
  /\ routeShape = "point_to_point"

(***************************************************************************)
(* Properties of the adjusted target distance                              *)
(***************************************************************************)

\* the valid distances of the rides the store returned
HistoricalDistances == RideDistances(pastRides)

\* the adjustment the rider's history asks for, from the raw target
ExpectedTarget ==
  LET ds == HistoricalDistances
      mean == SumSeq(ds) \div Len(ds)
      w == IF \E i \in DOMAIN ds : \E j \in DOMAIN ds : ds[i] # ds[j] THEN 30 ELSE 15
      raw == calculateTargetDistance(timeAvailable, trainingGoal)
  IN  CASE trainingGoal = "recovery" -> Min2(raw, (mean * 8) \div 10)
        [] trainingGoal = "endurance" -> Max2(raw, (mean * 12) \div 10)
        [] OTHER -> (raw * (100 - w) + mean * w) \div 100

\* C12: with a history of rides the target distance is min(target, mean * 0.8)
\* for recovery, max(target, mean * 1.2) for endurance and the blend with
\* weight 0.3 (spread) or 0.15 (no spread) otherwise, and every candidate built
\* from the target is built from this value.
C12_AdjustedTarget ==
  (pc \in {"variations", "loop", "score", "done"} /\ userId /\ HistoricalDistances # <<>>) =>
    /\ targetDistance = ExpectedTarget
    /\ \A i \in DOMAIN routes :
         routes[i].pattern = "mock" => routes[i].distance = ExpectedTarget

\* rides of 10, 20 and 30 km, an endurance request of raw target 15 km: 24 km,
\* also in a candidate
C12_Witness ==
  /\ pc = "done"
  /\ trainingGoal = "endurance"
  /\ calculateTargetDistance(timeAvailable, trainingGoal) = 15 * KM
  /\ HistoricalDistances = <<10 * KM, 20 * KM, 30 * KM>>
  /\ targetDistance = 24 * KM
  /\ \E i \in DOMAIN routes : routes[i].pattern = "mock" /\ routes[i].distance = 24 * KM

(***************************************************************************)
(* Properties of findFrequentAreas                                         *)
(***************************************************************************)

\* C13 as stated: at most 5 areas, each visited 3 times or more, sorted
\* strictly descending by frequency.
C13_AreasStrictlyDescending ==
  /\ Len(areasOut) <= 5
  /\ \A i \in DOMAIN areasOut : areasOut[i].frequency >= 3
  /\ \A i \in DOMAIN areasOut : \A j \in DOMAIN areasOut :
       i < j => areasOut[i].frequency > areasOut[j].frequency

\* C13 amended: at most 5 areas, each visited 3 times or more, in
\* non-increasing order of frequency (areas of equal frequency occur).
C13_AreasDescending ==
  /\ Len(areasOut) <= 5
  /\ \A i \in DOMAIN areasOut : areasOut[i].frequency >= 3
  /\ \A i \in DOMAIN areasOut : \A j \in DOMAIN areasOut :
       i < j => areasOut[i].frequency >= areasOut[j].frequency

\* more than five clusters of three visits or more, among them a small
\* cluster, cut to five areas of which the later-found is first
C13_Witness ==
  /\ Len(areasOut) = 5
  /\ Len(AllClustersAsAreas(sampleList)) > 5
  /\ areasOut[1].frequency > areasOut[5].frequency
  /\ areasOut[2].frequency = areasOut[3].frequency
  /\ AllClustersAsAreas(sampleList)[1].frequency < areasOut[1].frequency

(***************************************************************************)
(* Properties of analyzeDistanceDistribution                               *)
(***************************************************************************)

\* the 0-based index floor(n * num / den) lies inside a list of n elements
IndexInside(n, num, den) ==
  PercentileIndex(n, num, den) >= 0 /\ PercentileIndex(n, num, den) < n

ElementAt(num, den) ==
  SortAsc(distanceList)[((Len(distanceList) * num) \div den) + 1]

\* C14: for a non-empty distance list min <= p25 <= p50 <= p75 <= p90 <= max,
\* each percentile is the element at index floor(n * q) of the list sorted
\* ascending, and that index is inside the list, for one element too.
C14_PercentilesOrdered ==
  \A i \in DOMAIN distributionOut :
    LET d == distributionOut[i]
        n == Len(distanceList)
    IN  /\ IndexInside(n, 1, 4) /\ IndexInside(n, 1, 2)
        /\ IndexInside(n, 3, 4) /\ IndexInside(n, 9, 10)
        /\ d.p25 = ElementAt(1, 4) /\ d.p50 = ElementAt(1, 2)
        /\ d.p75 = ElementAt(3, 4) /\ d.p90 = ElementAt(9, 10)
        /\ d.min <= d.p25 /\ d.p25 <= d.p50 /\ d.p50 <= d.p75
        /\ d.p75 <= d.p90 /\ d.p90 <= d.max

\* a list given out of order whose percentiles are four different elements
C14_Witness ==
  /\ Len(distributionOut) = 1
  /\ Len(distanceList) >= 4
  /\ distanceList # SortAsc(distanceList)
  /\ distributionOut[1].min < distributionOut[1].p25
  /\ distributionOut[1].p25 < distributionOut[1].p50
  /\ distributionOut[1].p50 < distributionOut[1].p75

\* a list of one element: every percentile is that element
C14_WitnessSingle ==
  /\ Len(distanceList) = 1
  /\ Len(distributionOut) = 1
  /\ distributionOut[1].p90 = distanceList[1]
  /\ distributionOut[1].p25 = distanceList[1]

(***************************************************************************)
(* Properties of analyzePreferredDirections                                *)
(***************************************************************************)

AllBearings == Flat(bearingList)

\* the bearings that fall in the 45-degree sector centred on sectorBearing
InSector(sectorBearing) ==
  {i \in DOMAIN AllBearings :
     \/ /\ 2 * AllBearings[i] >= 2 * sectorBearing - 45
        /\ 2 * AllBearings[i] < 2 * sectorBearing + 45
     \/ /\ 2 * (AllBearings[i] - 360) >= 2 * sectorBearing - 45
        /\ 2 * (AllBearings[i] - 360) < 2 * sectorBearing + 45}

C15_WitnessExactTenth ==
  /\ Len(AllBearings) = 10
  /\ Cardinality(InSector(0)) = 1
  /\ preferencesOut # <<>>
  /\ \A i \in DOMAIN preferencesOut : preferencesOut[i].direction # "N"

(***************************************************************************)
(* Properties of the difficulty of a route                                 *)
(***************************************************************************)

\* the rule on a route's own figures: distance in distance units, gain in
\* metres, the ratio gain / distance in metres per km
DifficultyOfFigures(route) ==
  IF RatioLess(route.elevationGain * KM, route.distance, 10) THEN "easy"
  ELSE IF RatioLess(route.elevationGain * KM, route.distance, 25) THEN "moderate"
  ELSE "hard"

DifficultyExamples ==
  /\ calculateDifficulty(20 * KM, 150 * KM) = "easy"
  /\ calculateDifficulty(20 * KM, 300 * KM) = "moderate"
  /\ calculateDifficulty(20 * KM, 600 * KM) = "hard"
  /\ calculateDifficulty(20 * KM, 200 * KM) = "moderate"
  /\ calculateDifficulty(20 * KM, 500 * KM) = "hard"

\* C16: difficulty is easy below 10 m of gain per km, moderate from 10 to
\* below 25, hard otherwise, and the difficulty field of every candidate,
\* realized or mock, is the difficulty of its own distance and elevation gain.
C16_DifficultyOfOwnFigures ==
  /\ DifficultyExamples
  /\ \A i \in DOMAIN routes : routes[i].difficulty = DifficultyOfFigures(routes[i])

C16_RealizedOnly ==
  \A i \in DOMAIN routes :
    routes[i].pattern # "mock" => routes[i].difficulty = DifficultyOfFigures(routes[i])

(***************************************************************************)
(* Properties of the provider calls of a loop candidate                    *)
(***************************************************************************)

IssuedDirections == awaiting # "directions" /\ awaiting' = "directions"
IssuedMatching == awaiting # "matching" /\ awaiting' = "matching"
IssuedElevation == awaiting # "elevation" /\ awaiting' = "elevation"

\* the candidate just pushed is the mock route and none of its calls was made
MockWithoutCalls ==
  /\ routes'[Len(routes')].pattern = "mock"
  /\ routes'[Len(routes')].distance = targetDistance
  /\ callLog'[Len(callLog')] = NoCalls
  /\ Len(callLog') = Len(routes')

CallOrderStep ==
  /\ IssuedDirections =>
       /\ awaiting = "none" /\ mapboxToken
       /\ callLog'[Len(callLog')] = NoCalls
  /\ IssuedMatching =>
       /\ awaiting = "directions"
       /\ callLog'[patternIdx].directions # "none"
       /\ callLog'[patternIdx].matching = "none"
       /\ snappedRoute'.coordinates.n < 2 \/ snappedRoute'.confidence < 50
  /\ IssuedElevation =>
       /\ awaiting \in {"directions", "matching"}
       /\ callLog'[patternIdx].directions # "none"
       /\ callLog'[patternIdx].elevation = "none"
       /\ snappedRoute'.coordinates.n >= 2
  /\ ~mapboxToken =>
       /\ awaiting' = "none"
       /\ (pc = "loop" /\ routes' # routes) => MockWithoutCalls

\* C17: for each loop candidate the directions provider is called first, the
\* map-matching provider only if the directions result has fewer than 2
\* coordinates or confidence below 0.5, the elevation provider only after a
\* result with at least 2 coordinates; without a map token no provider is
\* called and the mock route is returned.
C17_CallOrder == [][CallOrderStep]_vars

\* three candidates: one realized from the directions answer alone, one after
\* a short directions answer and map matching, one after failed directions
\* whose map matching gave a single coordinate (mock route)
C17_Witness ==
  /\ \E i \in DOMAIN callLog :
       callLog[i] = [directions |-> "answered", matching |-> "none", elevation |-> "answered"]
  /\ \E i \in DOMAIN callLog :
       /\ callLog[i] = [directions |-> "answered", matching |-> "answered",
                        elevation |-> "answered"]
       /\ i \in DOMAIN routes /\ routes[i].confidence = 30
  /\ \E i \in DOMAIN callLog :
       /\ callLog[i] = [directions |-> "failed", matching |-> "answered", elevation |-> "none"]
       /\ i \in DOMAIN routes /\ routes[i].pattern = "mock"

(***************************************************************************)
(* Properties of findKeyPoints                                             *)
(***************************************************************************)

\* the angle between the leg into and the leg out of the i-th track point,
\* in 0..180 degrees
TurnAngle(i) ==
  LET d == calculateBearing(trackList[i], trackList[i + 1])
           - calculateBearing(trackList[i - 1], trackList[i])
      a == IF d < 0 THEN 0 - d ELSE d
  IN  IF a <= 180 THEN a ELSE 360 - a

TurnIndexes == {i \in 2..(Len(trackList) - 1) : TurnAngle(i) > 30}

\* the index in the track of the k-th turn
TurnIndex(k) == CHOOSE i \in TurnIndexes : Cardinality({j \in TurnIndexes : j < i}) = k - 1

\* C18: for a track of 3 points or more the key points are the first track
\* point, the interior points whose wrapped bearing change exceeds 30
\* degrees, in order and with confidence min(change / 90, 1), and the last
\* track point; a track of fewer than 3 points is returned unchanged.
C18_KeyPoints ==
  LET n == Len(trackList)
      m == Len(keyPointsOut)
  IN  /\ n < 3 => /\ m = n
                  /\ \A i \in 1..n : keyPointsOut[i] = KeyPoint(trackList[i], <<>>)
      /\ n >= 3 =>
           /\ m = Cardinality(TurnIndexes) + 2
           /\ keyPointsOut[1] = KeyPoint(trackList[1], <<>>)
           /\ keyPointsOut[m] = KeyPoint(trackList[n], <<>>)
           /\ \A k \in 1..(m - 2) :
                /\ keyPointsOut[k + 1].point = trackList[TurnIndex(k)]
                /\ keyPointsOut[k + 1].confidence =
                     << IF TurnAngle(TurnIndex(k)) >= 90 THEN 100
                        ELSE (100 * TurnAngle(TurnIndex(k))) \div 90 >>

\* a track with a bend of under 30 degrees (dropped), a turn through north
\* (kept with confidence 0.8) and a turn of 90 degrees or more (confidence 1)
C18_Witness ==
  /\ Len(trackList) = 5
  /\ Len(keyPointsOut) = 4
  /\ \E i \in 2..4 : TurnAngle(i) > 0 /\ TurnAngle(i) <= 30
  /\ \E k \in 2..3 : keyPointsOut[k].confidence = <<80>>
  /\ \E k \in 2..3 : keyPointsOut[k].confidence = <<100>>

(***************************************************************************)
(* Properties of extractRouteSegments                                      *)
(***************************************************************************)

\* metres along the track from its a-th to its b-th point
RECURSIVE PathMetres(_, _)
PathMetres(a, b) ==
  IF b <= a THEN 0
  ELSE PathMetres(a, b - 1) + 111 * (trackList[b].lon - trackList[b - 1].lon)

\* the point that closes the chunk started at the a-th point: the first one
\* 2 km or more along the track from it, or the final point
ClosingIndex(a) ==
  LET far == {j \in (a + 1)..Len(trackList) : PathMetres(a, j) >= 2000}
  IN  IF far = {} THEN Len(trackList) ELSE CHOOSE j \in far : \A k \in far : j <= k

\* the indexes at which chunks start when each starts where the last closed
RECURSIVE ChunkStartsFrom(_)
ChunkStartsFrom(a) ==
  IF a >= Len(trackList) THEN {} ELSE {a} \cup ChunkStartsFrom(ClosingIndex(a))

ChunkStarts == ChunkStartsFrom(1)
EmittedStarts == {a \in ChunkStarts : ClosingIndex(a) - a + 1 >= 5}
EmittedStart(k) == CHOOSE a \in EmittedStarts : Cardinality({b \in EmittedStarts : b < a}) = k - 1

C19_WitnessFinal ==
  /\ Len(segmentsOut) = 2
  /\ segmentsOut[2].distance < 2000
  /\ segmentsOut[2].endPoint = trackList[Len(trackList)]
  /\ segmentsOut[2].startPoint = segmentsOut[1].endPoint

(***************************************************************************)
(* Properties of the entries of the segment database                       *)
(***************************************************************************)

\* the k-th input segment opens an entry: no entry opened before it passes
\* the merge test with it
OpensEntry[k \in 1..Len(allSegments)] ==
  \A j \in 1..(k - 1) : OpensEntry[j] => ~SimilarSegments(allSegments[k], allSegments[j])

\* the entry the k-th input segment goes to, by the index of its opener
EntryOf(k) ==
  IF OpensEntry[k] THEN k
  ELSE CHOOSE j \in 1..(k - 1) :
         /\ OpensEntry[j] /\ SimilarSegments(allSegments[k], allSegments[j])
         /\ \A i \in 1..(j - 1) :
              OpensEntry[i] => ~SimilarSegments(allSegments[k], allSegments[i])

MergedInto(f) == {k \in 1..Len(allSegments) : EntryOf(k) = f}

\* the segment of a group with the longest coordinate list, the earliest one
\* among those of equal length
MostDetailed(group) ==
  CHOOSE g \in group :
    \A h \in group :
      \/ allSegments[g].coordinates.n > allSegments[h].coordinates.n
      \/ allSegments[g].coordinates.n = allSegments[h].coordinates.n /\ g <= h

\* C20: after buildSegmentDatabase each entry's usageCount is 1 plus the
\* number of later segments merged into it, the usageCounts sum to the
\* number of input segments, lastUsed is the greatest timestamp of the
\* segments merged into the entry, and coordinates is the longest coordinate
\* list among them (the earliest on equal length).
C20_EntryBookkeeping ==
  segmentDatabase # <<>> =>
    /\ Len(segmentDatabase) = Cardinality({k \in 1..Len(allSegments) : OpensEntry[k]})
    /\ SumSeq([i \in DOMAIN segmentDatabase |-> segmentDatabase[i].usageCount])
         = Len(allSegments)
    /\ \A i \in DOMAIN segmentDatabase :
         \E f \in 1..Len(allSegments) :
           /\ OpensEntry[f]
           /\ segmentDatabase[i].startPoint = allSegments[f].startPoint
           /\ segmentDatabase[i].endPoint = allSegments[f].endPoint
           /\ segmentDatabase[i].rideId = allSegments[f].rideId
           /\ segmentDatabase[i].usageCount = 1 + Cardinality(MergedInto(f) \ {f})
           /\ \A k \in MergedInto(f) : segmentDatabase[i].lastUsed >= allSegments[k].timestamp
           /\ \E k \in MergedInto(f) : segmentDatabase[i].lastUsed = allSegments[k].timestamp
           /\ segmentDatabase[i].coordinates = allSegments[MostDetailed(MergedInto(f))].coordinates

\* three segments in two entries: one entry took a later segment that is
\* older and has a coordinate list of the same length, and kept its own time
\* and coordinates
C20_Witness ==
  /\ Len(allSegments) = 3
  /\ Len(segmentDatabase) = 2
  /\ \E i \in DOMAIN segmentDatabase :
       /\ segmentDatabase[i].usageCount = 2
       /\ segmentDatabase[i].coordinates.of = segmentDatabase[i].rideId
       /\ \E k \in DOMAIN allSegments :
            /\ allSegments[k].rideId # segmentDatabase[i].rideId
            /\ SimilarSegments(allSegments[k], segmentDatabase[i])
            /\ allSegments[k].timestamp < segmentDatabase[i].lastUsed
            /\ allSegments[k].coordinates.n = segmentDatabase[i].coordinates.n

\* one entry of three segments that holds the coordinates of the last one
C20_WitnessLonger ==
  /\ Len(segmentDatabase) = 1
  /\ segmentDatabase[1].usageCount = 3
  /\ segmentDatabase[1].coordinates.of # segmentDatabase[1].rideId
  /\ segmentDatabase[1].lastUsed > segmentDatabase[1].timestamp

(***************************************************************************)
(* Properties of the clustering of findFrequentAreas                       *)
(***************************************************************************)

AllSamples == Flat(sampleList)

\* n times the squared planar distance test: the k-th sample is nearer than
\* the tolerance of 0.01 degree to the mean of the samples of the set members
NearMean(k, members) ==
  LET n == Cardinality(members)
      sumLon == SumSeq([i \in 1..Len(AllSamples) |->
                          IF i \in members THEN AllSamples[i].lon ELSE 0])
      sumLat == SumSeq([i \in 1..Len(AllSamples) |->
                          IF i \in members THEN AllSamples[i].lat ELSE 0])
      dLon == n * AllSamples[k].lon - sumLon
      dLat == n * AllSamples[k].lat - sumLat
  IN  dLon * dLon + dLat * dLat < (10 * n) * (10 * n)

\* the clusters of the first k samples, each named by the index of the sample
\* that opened it: a sample goes to the first cluster, in order of creation,
\* whose members so far have their mean near it, else to a cluster of its own
RECURSIVE ClustersUpTo(_)
ClustersUpTo(k) ==
  IF k = 0 THEN <<>>
  ELSE LET before == ClustersUpTo(k - 1)
           near == {j \in 1..(k - 1) :
                      /\ before[j] = j
                      /\ NearMean(k, {i \in 1..(k - 1) : before[i] = j})}
       IN  Append(before, IF near = {} THEN k ELSE CHOOSE j \in near : \A h \in near : j <= h)

\* the samples of the c-th cluster opened, in input order
MembersOf(clusterOf, c) ==
  LET openers == {k \in DOMAIN clusterOf : clusterOf[k] = k}
      opener == CHOOSE k \in openers : Cardinality({j \in openers : j < k}) = c - 1
      Joined(i) == clusterOf[i] = opener
  IN  SelectSeq([i \in DOMAIN clusterOf |-> i], Joined)

\* C21: each sample, in input order, goes to the first cluster in creation
\* order whose centroid so far is at planar distance < 0.01 from it, else
\* opens a cluster; every sample is in exactly one cluster and the
\* frequencies of the frequent areas sum to at most the number of samples.
C21_GreedyClusters ==
  LET clusterOf == ClustersUpTo(Len(AllSamples))
  IN  /\ Len(clustersOut) = Cardinality({k \in DOMAIN clusterOf : clusterOf[k] = k})
      /\ \A c \in DOMAIN clustersOut :
           LET members == MembersOf(clusterOf, c)
           IN  clustersOut[c] = [m \in DOMAIN members |-> AllSamples[members[m]]]
      /\ SumSeq([c \in DOMAIN clustersOut |-> Len(clustersOut[c])]) = Len(AllSamples)
      /\ SumSeq([i \in DOMAIN areasOut |-> areasOut[i].frequency]) <= Len(AllSamples)

\* a sample near the centroids of two clusters went to the one opened first,
\* and the frequent areas hold fewer visits than there are samples
C21_Witness ==
  LET clusterOf == ClustersUpTo(Len(AllSamples))
  IN  /\ Len(clustersOut) >= 2
      /\ \E k \in DOMAIN clusterOf :
           /\ clusterOf[k] # k
           /\ \E j \in (clusterOf[k] + 1)..(k - 1) :
                /\ clusterOf[j] = j
                /\ NearMean(k, {i \in 1..(k - 1) : clusterOf[i] = j})
      /\ areasOut # <<>>
      /\ SumSeq([i \in DOMAIN areasOut |-> areasOut[i].frequency]) < Len(AllSamples)

\* the same samples, as many times each
SameSamples(a, b) ==
  /\ Len(a) = Len(b)
  /\ \A i \in DOMAIN a :
       Cardinality({j \in DOMAIN a : a[j] = a[i]}) = Cardinality({j \in DOMAIN b : b[j] = a[i]})

\* a ride of two samples 0.008 degree apart, then a ride visiting three times
\* a place 0.008 degree from the first of them
ChainThenPlace == << <<Location(8, 0), Location(16, 0)>>, ThreeVisits(0, 0) >>

\* C22: clustering depends on the order of the samples: the history above
\* and the same rides in reverse order hold the same samples and give
\* clusters and frequent areas of different frequencies and centres.
C22_OrderDependent ==
  sampleList = ChainThenPlace =>
    LET reversed == Reverse(sampleList)
    IN  /\ SameSamples(Flat(sampleList), Flat(reversed))
        /\ areasOut = findFrequentAreas(sampleList)
        /\ Len(areasOut) = 1
        /\ Len(findFrequentAreas(reversed)) = 1
        /\ areasOut[1].frequency # findFrequentAreas(reversed)[1].frequency
        /\ areasOut[1].center # findFrequentAreas(reversed)[1].center

C22_Witness ==
  /\ sampleList = ChainThenPlace
  /\ areasOut # <<>>
  /\ areasOut[1].frequency = 3
  /\ findFrequentAreas(Reverse(sampleList))[1].frequency = 4

(***************************************************************************)
(* Properties of buildRouteFromSegments                                    *)
(***************************************************************************)

\* metres from the requested start to the nearer end of an entry, squared
EndpointDistance(e) ==
  LET s2 == e.startPoint[1] * e.startPoint[1] + e.startPoint[2] * e.startPoint[2]
      e2 == e.endPoint[1] * e.endPoint[1] + e.endPoint[2] * e.endPoint[2]
  IN  IF s2 < e2 THEN s2 ELSE e2

EndCloser(e) ==
  e.endPoint[1] * e.endPoint[1] + e.endPoint[2] * e.endPoint[2]
    < e.startPoint[1] * e.startPoint[1] + e.startPoint[2] * e.startPoint[2]

\* the database entries within 5 km and no longer than 1.5 times the target
Qualifying ==
  {i \in DOMAIN segmentDatabase :
     /\ EndpointDistance(segmentDatabase[i]) < 25000000
     /\ 10 * segmentDatabase[i].distance <= 15 * segmentTarget}

\* the nearest qualifying entry, the earliest of the nearest
Selected ==
  CHOOSE i \in Qualifying :
    \A j \in Qualifying :
      \/ EndpointDistance(segmentDatabase[i]) < EndpointDistance(segmentDatabase[j])
      \/ EndpointDistance(segmentDatabase[i]) = EndpointDistance(segmentDatabase[j]) /\ i <= j

IsSelectedCandidate ==
  /\ Len(segmentRoute) = 1
  /\ segmentRoute[1].confidence = 95
  /\ segmentRoute[1].source = "segments"
  /\ segmentRoute[1].coordinates.list = segmentDatabase[Selected].coordinates
  /\ segmentRoute[1].coordinates.reversed = EndCloser(segmentDatabase[Selected])

\* C23 as stated: whenever an entry qualifies, the nearest one (the earliest
\* on ties) is returned as a candidate of confidence 0.95, reversed exactly
\* when its end is closer to the start; otherwise the result is null.
C23_NearestEntryReturned ==
  /\ Qualifying # {} => IsSelectedCandidate
  /\ Qualifying = {} => segmentRoute = <<>>

\* C23 amended: the nearest qualifying entry is returned as the candidate
\* only when it has more than 10 coordinates; when it has 10 or fewer, or no
\* entry qualifies, the result is null.
C23_NearestEntryIfDetailed ==
  /\ (Qualifying # {} /\ segmentDatabase[Selected].coordinates.n > 10) => IsSelectedCandidate
  /\ (Qualifying # {} /\ segmentDatabase[Selected].coordinates.n <= 10) => segmentRoute = <<>>
  /\ Qualifying = {} => segmentRoute = <<>>

\* two entries equally near, the later one in the database nearer by its end:
\* the earlier is returned; an entry too long and one too far are passed over
C23_Witness ==
  /\ Len(segmentDatabase) = 3
  /\ Cardinality(Qualifying) = 2
  /\ \E i \in Qualifying : \E j \in Qualifying :
       /\ i < j
       /\ EndpointDistance(segmentDatabase[i]) = EndpointDistance(segmentDatabase[j])
       /\ EndCloser(segmentDatabase[i]) # EndCloser(segmentDatabase[j])
       /\ Selected = i
  /\ \E i \in DOMAIN segmentDatabase :
       i \notin Qualifying /\ EndpointDistance(segmentDatabase[i]) < 25000000
  /\ IsSelectedCandidate
  /\ segmentRoute[1].coordinates.reversed

\* the nearest qualifying entry has 6 coordinates and nothing is returned
\* though another qualifying entry has 12
C23_WitnessSparse ==
  /\ Cardinality(Qualifying) >= 2
  /\ segmentDatabase[Selected].coordinates.n <= 10
  /\ \E i \in Qualifying : segmentDatabase[i].coordinates.n > 10
  /\ segmentRoute = <<>>

(***************************************************************************)
(* Properties of out-and-back and point-to-point generation                *)
(***************************************************************************)

\* the candidate both route types give for a name, as its fields follow from
\* the target distance and the training goal alone
StraightCandidate(name) ==
  [name |-> name,
   distance |-> targetDistance,
   elevationGain |-> RoundDiv(targetDistance * MockGainFactor(trainingGoal), KM),
   coordinates |-> generateMockCoordinates(StartLocation, targetDistance),
   difficulty |-> calculateDifficulty(targetDistance,
                                      targetDistance * MockGainFactor(trainingGoal)),
   trainingGoal |-> trainingGoal,
   pattern |-> "mock",
   confidence |-> 50,
   windFactor |-> 80,
   score |-> (6 * ONE) \div 10]

\* C24: a point_to_point request produces exactly the candidates an out_back
\* request with the same arguments produces: four, for the bearings 0, 45, 90
\* and 135 degrees in that order, each of total distance the target distance.
C24_PointToPointAsOutBack ==
  (routeType \in {"out_back", "point_to_point"} /\ pc \in {"score", "done"}) =>
    routes = << StraightCandidate("North Route"), StraightCandidate("Northeast Route"),
                StraightCandidate("East Route"), StraightCandidate("Southeast Route") >>

\* a point_to_point request with a target of an odd number of distance units,
\* adjusted by the history, whose four candidates are generated
C24_Witness ==
  /\ routeType = "point_to_point"
  /\ pc = "score"
  /\ Len(routes) = 4
  /\ targetDistance % 2 = 1
  /\ targetDistance # calculateTargetDistance(timeAvailable, trainingGoal)
  /\ routes[4].name = "Southeast Route"

(***************************************************************************)
(* Properties of the waypoints of a loop candidate                         *)
(***************************************************************************)

\* the i-th slot of the loop: the point at the radius on the bearing
\* pattern.bearing + i * 90, without factor or jitter
SlotOf(request, i) ==
  LET slot == GeometricPoint(StartLocation, request.targetDistance, request.pattern, i,
                             [factor |-> 100, jitter |-> 0])
  IN  [lon |-> slot.lon, lat |-> slot.lat]

\* the list has 6 entries, the start first and last, and a waypoint taken from
\* a frequent area is the centre of the area of its position in the list
SixWaypoints(request) ==
  /\ Len(loopWaypoints) = 6
  /\ loopWaypoints[1] = [from |-> "start", point |-> PointAt(0, 0)]
  /\ loopWaypoints[6] = loopWaypoints[1]
  /\ \A i \in 1..4 :
       /\ loopWaypoints[i + 1].from \in {"area", "geometry"}
       /\ loopWaypoints[i + 1].from = "area" =>
            /\ i <= Len(request.nearbyAreas)
            /\ loopWaypoints[i + 1].point = request.nearbyAreas[i].center

\* area i of the request is nearer than 2r to this place
AreaNear(request, i, place) ==
  WithinUnits(place, request.nearbyAreas[i].center,
              LoopDiameterUnits(request.targetDistance))

\* C25: the waypoint list of a loop candidate has exactly 6 entries (start, 4
\* intermediate waypoints, start); a waypoint taken from a frequent area is
\* that area's centre exactly; an area is substituted only if it lies within
\* 2r of the slot.
C25_SubstitutedNearSlot ==
  loopRequest # <<>> =>
    /\ SixWaypoints(loopRequest[1])
    /\ \A i \in 1..4 :
         loopWaypoints[i + 1].from = "area" =>
           AreaNear(loopRequest[1], i, SlotOf(loopRequest[1], i))

\* C25 (amended): 6 entries (start, 4 waypoints, start); waypoint i is taken
\* from a frequent area exactly when the request has an i-th nearby area and
\* that area is nearer than 2r to the START location, and it is then that area's
\* centre exactly; every other waypoint lies between 0.7 r and 1.3 r from the
\* start (to the rounding of a location unit).
C25_SubstitutedNearStart ==
  loopRequest # <<>> =>
    LET request == loopRequest[1]
        radius == LoopRadiusMilli(request.targetDistance) \div 1000
    IN  /\ SixWaypoints(request)
        /\ \A i \in 1..4 :
             LET waypoint == loopWaypoints[i + 1]
                 square == waypoint.point.lon * waypoint.point.lon
                           + waypoint.point.lat * waypoint.point.lat
             IN  /\ waypoint.from = "area" <=>
                      (i <= Len(request.nearbyAreas) /\ AreaNear(request, i, StartLocation))
                 /\ waypoint.from = "geometry" =>
                      /\ 100 * square >= 49 * (radius - 2) * (radius - 2)
                      /\ 100 * square <= 169 * (radius + 2) * (radius + 2)

\* a list in which one area is substituted although it is farther than 2r
\* from its slot, another nearby area is left out as it is farther than 2r
\* from the start, and a waypoint is drawn
C25_Witness ==
  /\ loopRequest # <<>>
  /\ Len(loopWaypoints) = 6
  /\ \E i \in 1..4 : /\ loopWaypoints[i + 1].from = "area"
                     /\ ~AreaNear(loopRequest[1], i, SlotOf(loopRequest[1], i))
  /\ \E i \in 1..4 : /\ i <= Len(loopRequest[1].nearbyAreas)
                     /\ loopWaypoints[i + 1].from = "geometry"
                     /\ ~AreaNear(loopRequest[1], i, StartLocation)
  /\ loopWaypoints[5].from = "geometry"

(***************************************************************************)
(* Properties of the most common distance range                            *)
(***************************************************************************)

\* the four ranges in the order listed, in km
RangeNames == << "short", "medium", "long", "very_long" >>
RangeFrom == << 0, 15, 35, 65 >>
RangeTo == << 15, 35, 65, 150 >>

\* the number of distances of the history in range b
MembersOfRange(b) ==
  Cardinality({i \in DOMAIN distanceList :
                 distanceList[i] >= RangeFrom[b] * KM /\ distanceList[i] < RangeTo[b] * KM})

\* C26: mostCommonRange is the range among short [0,15), medium [15,35),
\* long [35,65), very_long [65,150) with the highest member count, the
\* earliest listed one when several share it; distances all outside every
\* range give 'short'.
C26_MostCommonRange ==
  distributionOut # <<>> =>
    LET b == CHOOSE k \in 1..4 :
               /\ \A j \in 1..4 : MembersOfRange(j) <= MembersOfRange(k)
               /\ \A j \in 1..(k - 1) : MembersOfRange(j) < MembersOfRange(k)
        mostCommon == distributionOut[1].mostCommon
    IN  /\ mostCommon.name = RangeNames[b]
        /\ mostCommon.min = RangeFrom[b] * KM
        /\ mostCommon.max = RangeTo[b] * KM
        /\ mostCommon.count = MembersOfRange(b)
        /\ (\A j \in 1..4 : MembersOfRange(j) = 0) => mostCommon.name = "short"

\* two later ranges share the highest count, one distance is exactly 15 km,
\* and the earlier of the two is returned
C26_Witness ==
  /\ distributionOut # <<>>
  /\ MembersOfRange(2) = 2
  /\ MembersOfRange(4) = 2
  /\ MembersOfRange(1) = 1
  /\ \E i \in DOMAIN distanceList : distanceList[i] = 15 * KM
  /\ distributionOut[1].mostCommon.name = "medium"

\* every distance of a history of several rides is outside every range
C26_WitnessOutside ==
  /\ Len(distanceList) >= 2
  /\ \A j \in 1..4 : MembersOfRange(j) = 0
  /\ distributionOut[1].mostCommon.name = "short"
  /\ distributionOut[1].mostCommon.count = 0

(***************************************************************************)
(* Properties of the fields a merge leaves alone                           *)
(***************************************************************************)

\* the input segment an entry was pushed for
OpenerOf(dbSegment) ==
  CHOOSE f \in 1..Len(allSegments) :
    OpensEntry[f] /\ allSegments[f].rideId = dbSegment.rideId

\* C27: an entry into which segments were merged keeps the startPoint,
\* endPoint, bearing, distance and rideId of the first segment that created
\* it, also when its coordinates are replaced by a merged segment's longer
\* list; every later merge decision compares against the first segment's end
\* points and bearing.
C27_MergeLeavesIdentity ==
  segmentDatabase # <<>> =>
    \A i \in DOMAIN segmentDatabase :
      LET entry == segmentDatabase[i]
      IN  /\ \E f \in 1..Len(allSegments) :
               OpensEntry[f] /\ allSegments[f].rideId = entry.rideId
          /\ LET first == allSegments[OpenerOf(entry)]
             IN  /\ entry.startPoint = first.startPoint
                 /\ entry.endPoint = first.endPoint
                 /\ entry.bearing = first.bearing
                 /\ entry.distance = first.distance
                 /\ entry.timestamp = first.timestamp
                 /\ entry.coordinates.n >= first.coordinates.n
                 /\ \A k \in MergedInto(OpenerOf(entry)) :
                      SimilarSegments(allSegments[k], first)
                 /\ entry.usageCount =
                      Cardinality({k \in 1..Len(allSegments) :
                        /\ SimilarSegments(allSegments[k], first)
                        /\ \A e \in 1..(OpenerOf(entry) - 1) :
                             OpensEntry[e] => ~SimilarSegments(allSegments[k], allSegments[e])
                        /\ k >= OpenerOf(entry)})

\* an entry holding the longer coordinate list of its second segment, whose
\* end points, bearing and distance differ from the entry's, into which a third
\* segment was merged that is similar to the first but not to the second
C27_Witness ==
  /\ Len(allSegments) = 3
  /\ Len(segmentDatabase) = 1
  /\ segmentDatabase[1].usageCount = 3
  /\ segmentDatabase[1].rideId = allSegments[1].rideId
  /\ segmentDatabase[1].coordinates = allSegments[2].coordinates
  /\ allSegments[2].coordinates.n > allSegments[1].coordinates.n
  /\ allSegments[2].startPoint # segmentDatabase[1].startPoint
  /\ allSegments[2].endPoint # segmentDatabase[1].endPoint
  /\ allSegments[2].bearing # segmentDatabase[1].bearing
  /\ allSegments[2].distance # segmentDatabase[1].distance
  /\ ~SimilarSegments(allSegments[3], allSegments[2])

(***************************************************************************)
(* Properties of the target distance of a rider without rides              *)
(***************************************************************************)

\* the target distance has been settled (lines 49-54 are passed)
TargetSettled == pc \in {"variations", "loop", "score", "done"}

\* the adjustment by the default profile: mean 25 km, range 10..50 km
DefaultAdjusted(baseline, goal) ==
  CASE goal = "recovery" -> Min2(baseline, 20 * KM)
    [] goal = "endurance" -> Max2(baseline, 30 * KM)
    [] OTHER -> (7 * baseline + 75 * KM) \div 10

\* baselines of 5 to 45 km in steps of 2.5 km
Baselines == {(5 * b * KM) \div 2 : b \in 2..18}

\* a userId was given and the history store gave no ride or failed
NoRidesFound ==
  /\ TargetSettled
  /\ userId
  /\ pastRides = <<>>
  /\ storeOutcome \in {"rides", "error", "null", "throw"}

\* the adjustment by the profile of a rider without rides is the stated one,
\* for the request and for every baseline
AdjustedByDefaults ==
  /\ NoRidesFound =>
       targetDistance = DefaultAdjusted(calculateTargetDistance(timeAvailable, trainingGoal),
                                        trainingGoal)
  /\ (TargetSettled /\ ~userId) =>
       targetDistance = calculateTargetDistance(timeAvailable, trainingGoal)
  /\ (NoRidesFound /\ pc = "variations") =>
       \A b \in Baselines : \A goal \in Goals :
         adjustDistanceBasedOnPatterns(b, ridingPatterns[1], goal) = DefaultAdjusted(b, goal)

\* C28: with a userId and zero rides (or a failing store) the target distance
\* is adjusted with the default profile's mean of 25 km: recovery min(baseline,
\* 20), endurance max(baseline, 30), other goals 0.7 * baseline + 7.5; only
\* when no userId is given does the target distance equal the baseline.
C28_DefaultsAdjustOnlyWithUser ==
  /\ AdjustedByDefaults
  /\ NoRidesFound =>
       targetDistance # calculateTargetDistance(timeAvailable, trainingGoal)

\* C28 (amended): as above, and without a userId the target distance is the
\* baseline; with a userId and no rides it equals the baseline exactly where the
\* adjustment returns it: recovery up to 20 km, endurance from 30 km, another
\* goal at 25 km.
C28_DefaultsAdjust ==
  /\ AdjustedByDefaults
  /\ NoRidesFound =>
       LET baseline == calculateTargetDistance(timeAvailable, trainingGoal)
       IN  targetDistance = baseline <=>
             CASE trainingGoal = "recovery" -> baseline <= 20 * KM
               [] trainingGoal = "endurance" -> baseline >= 30 * KM
               [] OTHER -> baseline = 25 * KM

\* the store fails for a rider who asks for an endurance ride of baseline
\* 15 km: the routes are generated for 30 km
C28_Witness ==
  /\ NoRidesFound
  /\ storeOutcome = "throw"
  /\ pc = "done"
  /\ trainingGoal = "endurance"
  /\ calculateTargetDistance(timeAvailable, trainingGoal) = 15 * KM
  /\ targetDistance = 30 * KM
  /\ result # <<>>

\* a rider without rides asks for a recovery ride of baseline 12 km and gets
\* the baseline
C28_WitnessBaseline ==
  /\ NoRidesFound
  /\ storeOutcome = "rides"
  /\ trainingGoal = "recovery"
  /\ targetDistance = 12 * KM
  /\ targetDistance = calculateTargetDistance(timeAvailable, trainingGoal)

(***************************************************************************)
(* Properties of the snapping requests of RouteBuilder                     *)
(***************************************************************************)

\* the edit whose effect has run last
EffectEdit(atEdit, pending) == IF pending THEN atEdit - 1 ELSE atEdit

\* C29: when the waypoints or the snap option change while a snapping request
\* is in flight, the superseded request never writes its results nor clears
\* the snapping flag after the change; only the request started for the latest
\* waypoints and snap option writes them, in any interleaving.
C29_SupersededNeverWrites ==
  lastWrite # <<>> => lastWrite[1].forEdit = lastWrite[1].atEdit

\* C29 (amended): a request writes its results and clears the snapping flag
\* only while it is the request of the effect that ran last; once the effect of
\* a change has run, the request it superseded never writes.  Between a change
\* and the run of its effect the request in flight may still write.  At most
\* one request, the one started last, is not cancelled.
C29_CancelledNeverWrites ==
  /\ lastWrite # <<>> =>
       /\ lastWrite[1].forEdit = EffectEdit(lastWrite[1].atEdit, lastWrite[1].pending)
       /\ lastWrite[1].by = Len(requests) \/ requests[lastWrite[1].by].cancelled
  /\ \A r \in DOMAIN requests :
       ~requests[r].cancelled =>
         /\ r = Len(requests)
         /\ requests[r].forEdit = EffectEdit(edits, effectPending)

\* a superseded request ends after the effect of the change has run, having
\* written nothing since, and the results are those of the request started for
\* the latest waypoints
C29_Witness ==
  /\ Len(requests) = 2
  /\ requests[1].cancelled
  /\ requests[1].at = "ended"
  /\ requests[1].endedAt > requests[1].forEdit
  /\ requests[2].at = "ended"
  /\ ~effectPending
  /\ snappedCoords = requests[2].forEdit
  /\ routeMetadata = requests[2].forEdit
  /\ elevationProfile = requests[2].forEdit
  /\ elevationStats = requests[2].forEdit
  /\ ~snapping
  /\ lastWrite[1].by = 2

\* the request in flight writes between a change and the run of its effect
C29_WitnessBeforeEffect ==
  /\ lastWrite # <<>>
  /\ lastWrite[1].pending
  /\ lastWrite[1].atEdit = lastWrite[1].forEdit + 1
  /\ snappedCoords = lastWrite[1].forEdit

(***************************************************************************)
(* Properties of the batch save of FileUpload                              *)
(***************************************************************************)

\* the step in which saveSelectedToDatabase finishes
SaveFinishes == saveRun # <<>> /\ saveRun' = <<>>

\* what holds when it finishes: each file of the selection had its insert,
\* the saved ones are gone from the three collections, the others are still
\* where they were (a selected file is a processed one; it is in
\* selectedFiles unless the list was cleared while the file was read)
FinishedSave ==
  /\ DOMAIN insertLog' = Elements(saveRun[1].order)
  /\ \A id \in DOMAIN insertLog' :
       IF insertLog'[id] = "succeeded"
       THEN /\ id \notin selectedFiles'
            /\ id \notin DOMAIN processedFiles'
            /\ id \notin Elements(selectedForSave')
       ELSE /\ id \in selectedFiles => id \in selectedFiles'
            /\ id \in DOMAIN processedFiles'
            /\ id \in Elements(selectedForSave')
            /\ processedFiles'[id] = processedFiles[id]
  /\ ~saving'

\* while it runs, saving is true and the files are left as they are; a failed
\* or throwing insert is followed by the insert of the next file
RunningSave ==
  /\ saving /\ saving'
  /\ selectedForSave' = selectedForSave
  /\ saveRun[1].currentIndex < Len(saveRun[1].order)
  /\ saveRun'[1].currentIndex = saveRun[1].currentIndex + 1
  /\ saveRun'[1].order = saveRun[1].order

SaveStep ==
  /\ SaveFinishes => FinishedSave
  /\ (saveRun # <<>> /\ saveRun' # <<>> /\ insertLog' # insertLog) => RunningSave
  /\ (saveRun = <<>>) => ~saving

C30_WitnessNoneSaved ==
  /\ saveRun = <<>>
  /\ ~saving
  /\ \E a, b \in FileIds :
       /\ insertLog = MapSet(MapSet(<<>>, a, "failed"), b, "threw")
       /\ a # b
       /\ selectedFiles = {a, b}
       /\ selectedForSave = <<a, b>>
  /\ globalError = <<2>>
====
